---- MODULE Spec2Model ----
(***************************************************************************)
(* Model of the reshape / dimension-order engine of pyUSID.io.hdf_utils:   *)
(* get_sort_order, get_dimensionality, reshape_to_n_dims and               *)
(* reshape_from_n_dims, applied to numpy arrays.                           *)
(*                                                                         *)
(* An N-D numpy array is a record [shape, data] with data the C-order      *)
(* (row-major) flattening.  An index matrix is a non-empty sequence of     *)
(* non-empty rows.  All indices that the code handles (row indices, axes)  *)
(* are 0-based as in the code; TLA+ sequences are 1-based, so x[i + 1]     *)
(* reads python's x[i].  A python call returns a record whose field exc is *)
(* "None" on a normal return and the exception's type when it raises.      *)
(***************************************************************************)
EXTENDS Integers, Sequences, FiniteSets, TLC

\* ------------------------------------------------------------------ bounds
MaxDims == 2    \* dimensions per group (Position / Spectroscopic)
MaxSize == 3    \* ticks per dimension
MaxSteps == 6   \* steps (rows of Position, columns of Spectroscopic) per group
MaxElems == 8   \* elements of an N-D array handed directly to reshape_from_n_dims
MaxCells == 8   \* entries of an index matrix handed directly to get_sort_order
MaxIdx == 1     \* largest entry of such an index matrix
MaxUnitDims == 3   \* dimensions of the matrices built for get_unit_values
MaxUnitSteps == 12 \* steps of those matrices
MaxRowLen == 6     \* steps of an index row handed directly to get_unit_values
MaxPos == 2         \* positions of the Main dataset written
MaxSpec == 3        \* spectroscopic steps of the Main dataset written
MaxEdits == 1       \* attributes of the Main dataset edited at one time
MaxRedDims == 3     \* dimensions of the pair handed to write_reduced_anc_dsets
MaxGroups == 4        \* objects in the parent group of create_indexed_group
MaxRedSize == 2     \* size of each of those dimensions

\* ------------------------------------------------------- python / numpy values
None == <<>>

Raise(e) == [exc |-> e]

RECURSIVE np_prod(_)
np_prod(s) == IF s = <<>> THEN 1 ELSE Head(s) * np_prod(Tail(s))

Reversed(s) == [i \in 1..Len(s) |-> s[Len(s) + 1 - i]]

Range(s) == {s[i] : i \in 1..Len(s)}

\* python's s[a:b] for 0 <= a, 0 <= b
Slice(s, a, b) ==
    LET hi == IF b > Len(s) THEN Len(s) ELSE b
    IN  IF a >= hi THEN <<>> ELSE [i \in 1..(hi - a) |-> s[a + i]]

\* np.transpose of a 2-D matrix kept as a sequence of rows
np_transpose2(m) == [j \in 1..Len(m[1]) |-> [i \in 1..Len(m) |-> m[i][j]]]

MatSize(m) == Len(m) * Len(m[1])

\* np.unique(row) counted
np_unique_len(row) == Cardinality(Range(row))

\* np.argsort of a short 1-D list (insertion sort: ascending, ties in index order)
ArgsortRank(v, i) ==
    Cardinality({j \in 1..Len(v) : v[j] < v[i] \/ (v[j] = v[i] /\ j < i)})

np_argsort(v) == [r \in 1..Len(v) |-> (CHOOSE i \in 1..Len(v) : ArgsortRank(v, i) = r - 1) - 1]

\* ------------------------------------------------------------ N-D arrays
Array(shape, data) == [shape |-> shape, data |-> data]

ndim(a) == Len(a.shape)

Stride(shape, d) == np_prod(Slice(shape, d, Len(shape)))

Unravel(i, shape) == [d \in 1..Len(shape) |-> (i \div Stride(shape, d)) % shape[d]]

RECURSIVE RavelFrom(_, _, _)
RavelFrom(mi, shape, d) ==
    IF d > Len(shape) THEN 0 ELSE mi[d] * Stride(shape, d) + RavelFrom(mi, shape, d + 1)

Ravel(mi, shape) == RavelFrom(mi, shape, 1)

\* element of an array at a 0-based multi-index
At(a, mi) == a.data[Ravel(mi, a.shape) + 1]

IsAxesPermutation(axes, n) == Len(axes) = n /\ Range(axes) = 0..(n - 1)

\* ndarray.transpose(axes): axis i of the result is axis axes[i] of the input
TransposeData(a, axes) ==
    LET newshape == [i \in 1..Len(axes) |-> a.shape[axes[i] + 1]]
        src(m) == [d \in 1..Len(axes) |-> m[CHOOSE i \in 1..Len(axes) : axes[i] + 1 = d]]
    IN  Array(newshape,
              [j \in 1..Len(a.data) |-> At(a, src(Unravel(j - 1, newshape)))])

np_ndarray_transpose(a, axes) ==
    IF IsAxesPermutation(axes, ndim(a))
    THEN [exc |-> "None", val |-> TransposeData(a, axes)]
    ELSE Raise("ValueError")

\* ndarray.reshape(newshape), every entry of newshape >= 0
np_ndarray_reshape(a, newshape) ==
    IF np_prod(newshape) = Len(a.data)
    THEN [exc |-> "None", val |-> Array(newshape, a.data)]
    ELSE Raise("ValueError")

\* ndarray.reshape(known + [-1]): the last axis is inferred
np_ndarray_reshape_infer(a, known) ==
    LET p == np_prod(known)
    IN  IF p > 0 /\ Len(a.data) % p = 0
        THEN [exc |-> "None", val |-> Array(Append(known, Len(a.data) \div p), a.data)]
        ELSE Raise("ValueError")

\* ------------------------------------------------------ get_sort_order
SniffOrientation(ds) == IF Len(ds) > Len(ds[1]) THEN np_transpose2(ds) ELSE ds

\* row[i] != row[i - 1] for i in range(len(row)): python's row[-1] is the last entry
ChangeCount(row) ==
    Cardinality({i \in 1..Len(row) : row[i] # row[IF i = 1 THEN Len(row) ELSE i - 1]})

\* faulty variant: a stable descending sort: rows with equal counts keep their order
get_sort_order_stable(ds_spec) ==
    LET ds == SniffOrientation(ds_spec)
        change_count == [r \in 1..Len(ds) |-> 0 - ChangeCount(ds[r])]
    IN  np_argsort(change_count)

get_sort_order(ds_spec) ==
    LET ds == SniffOrientation(ds_spec)
        change_count == [r \in 1..Len(ds) |-> ChangeCount(ds[r])]
    IN  Reversed(np_argsort(change_count))

\* ------------------------------------------------------ get_dimensionality
\* dtype_utils.contains_integers(index_sort, min_val=0)
contains_integers(iter_int, min_val) == \A i \in 1..Len(iter_int) : iter_int[i] >= min_val

NoSort == [is_none |-> TRUE, val |-> <<>>]
Sort(s) == [is_none |-> FALSE, val |-> s]

get_dimensionality(ds_index_in, index_sort_in) ==
    LET ds_index == SniffOrientation(ds_index_in)
        n == Len(ds_index)
        index_sort == IF index_sort_in.is_none
                      THEN [i \in 1..n |-> i - 1]
                      ELSE index_sort_in.val
    IN  IF ~index_sort_in.is_none /\ ~contains_integers(index_sort, 0)
        THEN Raise("ValueError")
        ELSE IF ~index_sort_in.is_none /\ Cardinality(Range(index_sort)) > n
        THEN Raise("ValueError")
        ELSE IF ~index_sort_in.is_none /\ (0..(n - 1)) # Range(index_sort)
        THEN Raise("ValueError")
        ELSE [exc |-> "None",
              val |-> [i \in 1..Len(index_sort) |-> np_unique_len(ds_index[index_sort[i] + 1])]]

\* ------------------------------------------- write_utils (index builders)
\* Cartesian tiling of build_ind_val_matrices, spectroscopic orientation:
\* entry [i, s] = floor(s / (L_0 * ... * L_{i-1})) mod L_i
\* faulty variant: the last dimension cycles every step
Tiling_LastFastest(dims) ==
    [i \in 1..Len(dims) |->
        [s \in 1..np_prod(dims) |->
            ((s - 1) \div np_prod(Slice(dims, i, Len(dims)))) % dims[i]]]

Tiling(dims) ==
    [i \in 1..Len(dims) |->
        [s \in 1..np_prod(dims) |-> ((s - 1) \div np_prod(Slice(dims, 0, i - 1))) % dims[i]]]

build_ind_matrix(dims, is_spectral) ==
    IF is_spectral THEN Tiling(dims) ELSE np_transpose2(Tiling(dims))

\* the value matrix of build_ind_val_matrices: the tick at each index
ValuesOf(inds_mat, ticks) ==
    [i \in 1..Len(inds_mat) |-> [s \in 1..Len(inds_mat[1]) |-> ticks[i][inds_mat[i][s] + 1]]]

\* tick values of dimension i (from 0) with L ticks: rising, falling or all equal
Ticks(scheme, i, L) ==
    [k \in 1..L |-> IF scheme = "up" THEN 10 * i + k
                    ELSE IF scheme = "down" THEN 10 * i + L - k
                    ELSE 7]

\* build_ind_val_matrices(unit_values, is_spectral): [exc, inds, vals]; an empty
\* list of dimensions is rejected
build_ind_val_matrices(unit_values, is_spectral) ==
    IF Len(unit_values) = 0 THEN [exc |-> "ValueError", inds |-> None, vals |-> None]
    ELSE LET sizes == [i \in 1..Len(unit_values) |-> Len(unit_values[i])]
             spec_vals == ValuesOf(Tiling(sizes), unit_values)
         IN  [exc |-> "None",
              inds |-> build_ind_matrix(sizes, is_spectral),
              vals |-> IF is_spectral THEN spec_vals ELSE np_transpose2(spec_vals)]

\* the distinct values of a row in the order they first occur
FirstOccurrences(row) ==
    LET IsFirst(i) == \A j \in 1..(i - 1) : row[j] # row[i]
        places == SelectSeq([i \in 1..Len(row) |-> i], IsFirst)
    IN  [k \in 1..Len(places) |-> row[places[k]]]

\* rank of each entry of a row among the row's distinct values, from 0
RankEncoded(row) ==
    LET uniq == FirstOccurrences(row)
    IN  [s \in 1..Len(row) |-> (CHOOSE k \in 1..Len(uniq) : uniq[k] = row[s]) - 1]

\* create_spec_inds_from_vals(ds_spec_val_mat): a is [ndim, mat]; each row's
\* distinct values are rank-encoded in first-occurrence order; a non-2-D input fails
create_spec_inds_from_vals(a) ==
    IF a.ndim # 2 THEN Raise("ValueError")
    ELSE [exc |-> "None", val |-> [i \in 1..Len(a.mat) |-> RankEncoded(a.mat[i])]]

\* make_indices_matrix(num_steps, is_position): rejects an empty list and, among
\* several dimensions, a dimension of size 1; a lone [1] gives the 1 x 1 matrix
make_indices_matrix(num_steps, is_position) ==
    IF Len(num_steps) = 0 THEN Raise("ValueError")
    ELSE IF Len(num_steps) > 1 /\ \E i \in 1..Len(num_steps) : num_steps[i] < 2
    THEN Raise("ValueError")
    ELSE [exc |-> "None", val |-> build_ind_matrix(num_steps, ~is_position)]

\* ------------------------------------------------------- get_unit_values
DimName(i) == <<"Dim", i>>

RaiseMsg(e, msg) == [exc |-> e, msg |-> msg]

np_min(row) == CHOOSE x \in Range(row) : \A y \in Range(row) : x <= y
np_max(S) == CHOOSE x \in S : \A y \in S : y <= x

\* starts = np.where(inds_for_dim == np.min(inds_for_dim))[0]   (0-based)
Starts(inds_for_dim) ==
    LET lowest == np_min(inds_for_dim)
        AtLowest(i) == inds_for_dim[i + 1] = lowest
    IN  SelectSeq([i \in 1..Len(inds_for_dim) |-> i - 1], AtLowest)

\* step_sizes = np.hstack(([1], np.diff(starts)))
StepSizes(starts) ==
    [k \in 1..Len(starts) |-> IF k = 1 THEN 1 ELSE starts[k] - starts[k - 1]]

\* faulty variant: more than two step sizes other than 1 are needed to fail
NonConstantSteps_MoreThanTwo(step_sizes) == Cardinality(Range(step_sizes) \ {1}) > 2

\* np.where(np.unique(step_sizes) - 1)[0].size > 1
NonConstantSteps(step_sizes) == Cardinality(Range(step_sizes) \ {1}) > 1

\* the dimension shows some form of repetition: len(tile_starts) >= 1 at line 1619
HasTiles(step_sizes) == \E k \in 1..Len(step_sizes) : step_sizes[k] > 1

\* tile_starts as used from line 1630 on (0-based positions in the row)
TileStarts(inds_for_dim, starts, step_sizes) ==
    LET IsJump(k) == step_sizes[k] > 1
        tile_starts == SelectSeq([k \in 1..Len(starts) |-> k], IsJump)
    IN  IF Len(tile_starts) < 1 THEN <<0, Len(inds_for_dim)>>
        ELSE <<0>> \o [k \in 1..Len(tile_starts) |-> starts[tile_starts[k]]]
                 \o <<Len(inds_for_dim)>>

\* subsections = [inds_for_dim[tile_starts[ind]: tile_starts[ind + 1]] ...]
Subsections(inds_for_dim, tile_starts) ==
    [k \in 1..(Len(tile_starts) - 1) |->
        Slice(inds_for_dim, tile_starts[k], tile_starts[k + 1])]

\* np.diff(subsections, axis=0) needs tiles of one length
Ragged(subsections) == \E k \in 1..Len(subsections) : Len(subsections[k]) # Len(subsections[1])

\* np.max(np.diff(subsections, axis=0)) != 0.  In an unsigned dtype (INDICES_DTYPE
\* is np.uint32) a difference wraps modulo 2^32 and is never negative, so the
\* largest one is 0 only when all are 0; in a signed dtype it is the largest of
\* the signed differences
TilesDiffer(subsections, unsigned) ==
    IF unsigned
    THEN \E k \in 1..(Len(subsections) - 1), c \in 1..Len(subsections[1]) :
            subsections[k + 1][c] # subsections[k][c]
    ELSE np_max({subsections[k + 1][c] - subsections[k][c] :
                    k \in 1..(Len(subsections) - 1), c \in 1..Len(subsections[1])}) # 0

\* faulty variant: every place of the first tile, repeats included
StepInds_EveryStep(subsection) == [i \in 1..Len(subsection) |-> i - 1]

\* step_inds: 0 and every place of the first tile where the index changes
StepInds(subsection) ==
    LET Changes(i) == i > 0 /\ subsection[i + 1] # subsection[i]
    IN  <<0>> \o SelectSeq([i \in 1..Len(subsection) |-> i - 1], Changes)

\* one turn of the loop over all_dim_names (lines 1594-1642)
UnitValuesOfRow(inds_for_dim, vals_for_dim, unsigned) ==
    LET starts == Starts(inds_for_dim)
        step_sizes == StepSizes(starts)
        tile_starts == TileStarts(inds_for_dim, starts, step_sizes)
        subsections == Subsections(inds_for_dim, tile_starts)
        step_inds == StepInds(subsections[1])
    IN  IF NonConstantSteps(step_sizes)
        THEN RaiseMsg("ValueError", "Non constant step sizes")
        ELSE IF HasTiles(step_sizes) /\ Ragged(subsections)
        THEN RaiseMsg("ValueError", "inhomogeneous shape")
        ELSE IF HasTiles(step_sizes) /\ TilesDiffer(subsections, unsigned)
        THEN RaiseMsg("ValueError", "Values in each tile are different")
        ELSE [exc |-> "None",
              val |-> [k \in 1..Len(step_inds) |-> vals_for_dim[step_inds[k] + 1]]]

\* np.where(all_dim_names == dim_name)[0][0], from 1
RowOfName(names, dim_name) ==
    CHOOSE i \in 1..Len(names) :
        names[i] = dim_name /\ \A j \in 1..(i - 1) : names[j] # dim_name

\* inds and vals are records [mat, unsigned, is_h5, labels, incomplete]: the
\* matrix, whether its dtype is unsigned, whether it is an h5py.Dataset, and the
\* attributes 'labels' and 'incomplete_dimensions' of a dataset
get_unit_values(inds, vals, names_wanted, names_given, spec_flag) ==
    IF (names_given = None /\ ~(inds.is_h5 /\ vals.is_h5)) THEN Raise("TypeError")
    ELSE IF inds.is_h5 /\ ~vals.is_h5 THEN Raise("AttributeError")
    ELSE IF inds.is_h5 /\ (inds.incomplete \/ vals.incomplete) THEN Raise("ValueError")
    ELSE IF <<Len(inds.mat), Len(inds.mat[1])>> # <<Len(vals.mat), Len(vals.mat[1])>>
    THEN Raise("ValueError")
    ELSE
    LET names == IF names_given = None THEN inds.labels ELSE names_given
        spec == IF spec_flag = "None" THEN Len(inds.mat) < Len(inds.mat[1])
                ELSE spec_flag = "True"
        inds_mat == IF spec THEN inds.mat ELSE np_transpose2(inds.mat)
        vals_mat == IF spec THEN vals.mat ELSE np_transpose2(vals.mat)
        wanted == IF names_wanted = None THEN names ELSE names_wanted
    IN  IF Len(names) # Len(inds_mat) THEN Raise("ValueError")
        ELSE IF \E k \in 1..Len(wanted) : wanted[k] \notin Range(names) THEN Raise("KeyError")
        ELSE
        LET row(i) == RowOfName(names, names[i])
            res == [i \in 1..Len(names) |->
                       UnitValuesOfRow(inds_mat[row(i)], vals_mat[row(i)], inds.unsigned)]
            bad == {i \in 1..Len(names) : res[i].exc # "None"}
        IN  IF bad # {} THEN res[CHOOSE i \in bad : \A q \in bad : i <= q]
            ELSE [exc |-> "None",
                  val |-> [nm \in Range(wanted) |-> res[RowOfName(names, nm)].val]]

\* ------------------------------------------------------- the HDF5 store
\* A file is a function from object names to objects.  A dataset has a shape,
\* string attributes (attrs: name -> string), and for an ancillary dataset its
\* matrix and its 'labels' and 'units' attributes.  An object reference stored in
\* an attribute is the name of its target; it cannot be resolved when no object
\* of that name is in the file.
NoAttrs == [a \in {} |-> ""]

Dataset(shape, attrs) ==
    [kind |-> "Dataset", shape |-> shape, attrs |-> attrs, mat |-> None,
     labels |-> None, units |-> None]

Group == [kind |-> "Group", shape |-> None, attrs |-> NoAttrs, mat |-> None,
          labels |-> None, units |-> None]

\* h5_obj.attrs[key] = val
SetAttr(attrs, key, val) ==
    [a \in DOMAIN attrs \cup {key} |-> IF a = key THEN val ELSE attrs[a]]

\* del h5_obj.attrs[key]
DelAttr(attrs, key) == [a \in DOMAIN attrs \ {key} |-> attrs[a]]

\* h5_parent_group.create_dataset(name, ...) / the file with one object replaced
WithObject(file, name, obj) ==
    [n \in DOMAIN file \cup {name} |-> IF n = name THEN obj ELSE file[n]]

Resolves(file, obj, link) == link \in DOMAIN obj.attrs /\ obj.attrs[link] \in DOMAIN file

Target(file, obj, link) == file[obj.attrs[link]]

dset_names == <<"Position_Indices", "Position_Values",
                "Spectroscopic_Indices", "Spectroscopic_Values">>

\* --------------------------------------------------------- check_if_main
Returns(val) == [exc |-> "None", val |-> val]

\* lines 1166-1177 (axis 0, values first) and 1179-1189 (axis 1, indices first)
AncShapeCheck(main, first, second, axis) ==
    IF first.kind # "Dataset" \/ second.kind # "Dataset" THEN Raise("AttributeError")
    ELSE IF Len(first.shape) <= axis \/ Len(second.shape) <= axis THEN Raise("IndexError")
    ELSE Returns(/\ first.shape = second.shape
                 /\ main.shape[axis + 1] = first.shape[axis + 1]
                 /\ main.shape[axis + 1] = second.shape[axis + 1])

\* h5_main is the name of an object of the file, or of something that is no
\* h5py object at all
\* faulty variant: one of the two attributes is enough
HasMandatoryAttrs_Either(attrs) == {"quantity", "units"} \cap DOMAIN attrs # {}

\* attr_success (line 1160)
HasMandatoryAttrs(attrs) == {"quantity", "units"} \subseteq DOMAIN attrs

check_if_main(file, h5_main_name) ==
    IF h5_main_name \notin DOMAIN file THEN Returns(FALSE)
    ELSE
    LET main == file[h5_main_name]
    IN  IF main.kind # "Dataset" THEN Returns(FALSE)
        ELSE IF Len(main.shape) # 2 THEN Returns(FALSE)
        ELSE IF \E i \in 1..4 : ~Resolves(file, main, dset_names[i]) THEN Returns(FALSE)
        ELSE IF ~HasMandatoryAttrs(main.attrs) THEN Returns(FALSE)
        ELSE
        LET success == \A i \in 1..4 : Target(file, main, dset_names[i]).kind = "Dataset"
            pos == AncShapeCheck(main, Target(file, main, "Position_Values"),
                                 Target(file, main, "Position_Indices"), 0)
            spec == AncShapeCheck(main, Target(file, main, "Spectroscopic_Indices"),
                                  Target(file, main, "Spectroscopic_Values"), 1)
        IN  IF pos.exc # "None" THEN pos
            ELSE IF ~pos.val THEN Returns(FALSE)
            ELSE IF spec.exc # "None" THEN spec
            ELSE IF ~spec.val THEN Returns(FALSE)
            ELSE Returns(success)

\* ---------------------------------------------------- write_main_dataset
\* a Dimension object: name, units and tick values
Dimension(name, units, values) == [name |-> name, units |-> units, values |-> values]

Sizes(dims) == [i \in 1..Len(dims) |-> Len(dims[i].values)]

AncDataset(mat, dims) ==
    [kind |-> "Dataset", shape |-> <<Len(mat), Len(mat[1])>>, attrs |-> NoAttrs,
     mat |-> mat,
     labels |-> [i \in 1..Len(dims) |-> dims[i].name],
     units |-> [i \in 1..Len(dims) |-> dims[i].units]]

\* write_ind_val_dsets: [exc, file] with the two datasets created under base_name
write_ind_val_dsets(file, dims, is_spectral, base_name) ==
    IF base_name \o "Indices" \in DOMAIN file \/ base_name \o "Values" \in DOMAIN file
    THEN [exc |-> "KeyError", file |-> file]
    ELSE IF Len(dims) = 0 THEN [exc |-> "ValueError", file |-> file]
    ELSE
    LET spec_inds == Tiling(Sizes(dims))
        spec_vals == ValuesOf(spec_inds, [i \in 1..Len(dims) |-> dims[i].values])
        indices == IF is_spectral THEN spec_inds ELSE np_transpose2(spec_inds)
        values == IF is_spectral THEN spec_vals ELSE np_transpose2(spec_vals)
    IN  [exc |-> "None",
         file |-> WithObject(WithObject(file, base_name \o "Indices", AncDataset(indices, dims)),
                             base_name \o "Values", AncDataset(values, dims))]

\* faulty variant: the ancillaries are not compared with the main data
ValidateAnc_ShapesOnly(inds, vals, main_shape, axis) ==
    IF inds.kind # "Dataset" \/ vals.kind # "Dataset" THEN "TypeError"
    ELSE IF inds.shape # vals.shape THEN "ValueError"
    ELSE "None"

\* __validate_anc_h5_dsets (lines 2244-2253); axis is int(is_spectroscopic)
ValidateAnc(inds, vals, main_shape, axis) ==
    IF inds.kind # "Dataset" \/ vals.kind # "Dataset" THEN "TypeError"
    ELSE IF inds.shape # vals.shape THEN "ValueError"
    ELSE IF Len(inds.shape) <= axis THEN "IndexError"
    ELSE IF inds.shape[axis + 1] # main_shape[axis + 1] THEN "ValueError"
    ELSE "None"

\* one group of ancillaries (lines 2324-2340 and 2342-2358): given datasets are
\* validated, else fresh ones are written; [exc, file, inds, vals].  An optional
\* h5py object is <<>> (None) or <<name>>; dims is None or a non-empty list
AncStep(file, h5_inds, h5_vals, dims, main_shape, axis, aux_prefix) ==
    IF h5_inds # None /\ h5_vals # None
    THEN [exc |-> ValidateAnc(file[h5_inds[1]], file[h5_vals[1]], main_shape, axis),
          file |-> file, inds |-> h5_inds[1], vals |-> h5_vals[1]]
    ELSE IF aux_prefix \o "Indices" \in DOMAIN file \/ aux_prefix \o "Values" \in DOMAIN file
    THEN [exc |-> "KeyError", file |-> file, inds |-> "", vals |-> ""]
    ELSE IF dims = None
    THEN [exc |-> "TypeError", file |-> file, inds |-> "", vals |-> ""]
    ELSE IF main_shape[axis + 1] # np_prod(Sizes(dims))
    THEN [exc |-> "ValueError", file |-> file, inds |-> "", vals |-> ""]
    ELSE LET written == write_ind_val_dsets(file, dims, axis = 1, aux_prefix)
         IN  [exc |-> written.exc, file |-> written.file,
              inds |-> aux_prefix \o "Indices", vals |-> aux_prefix \o "Values"]

\* link_as_main (lines 1247-1293): [exc, file]
link_as_main(file, h5_main_name, pos_inds, pos_vals, spec_inds, spec_vals) ==
    IF \E n \in {h5_main_name, pos_inds, pos_vals, spec_inds, spec_vals} :
          file[n].kind # "Dataset"
    THEN [exc |-> "TypeError", file |-> file]
    ELSE IF file[pos_vals].shape # file[pos_inds].shape
            \/ file[spec_vals].shape # file[spec_inds].shape
    THEN [exc |-> "ValueError", file |-> file]
    ELSE LET main == file[h5_main_name]
             with_links == SetAttr(SetAttr(SetAttr(SetAttr(main.attrs,
                           "Position_Indices", pos_inds), "Position_Values", pos_vals),
                           "Spectroscopic_Indices", spec_inds), "Spectroscopic_Values", spec_vals)
         IN  [exc |-> "None",
              file |-> WithObject(file, h5_main_name, [main EXCEPT !.attrs = with_links])]

\* a is a record of the arguments; returns [exc, file, h5_main]: the exception,
\* the file as the call leaves it, and the name of the dataset returned
write_main_dataset(file, a) ==
    LET Fails(e, f) == [exc |-> e, file |-> f, h5_main |-> ""]
    IN
    IF ~a.editable THEN Fails("ValueError", file)
    ELSE IF a.quantity = "" \/ a.units = "" \/ a.main_data_name = ""
    THEN Fails("ValueError", file)
    ELSE IF Len(a.main_data) # 2 THEN Fails("ValueError", file)
    ELSE
    LET pos == AncStep(file, a.h5_pos_inds, a.h5_pos_vals, a.pos_dims, a.main_data, 0,
                       "Position_")
    IN  IF pos.exc # "None" THEN Fails(pos.exc, pos.file)
        ELSE
        LET spec == AncStep(pos.file, a.h5_spec_inds, a.h5_spec_vals, a.spec_dims,
                            a.main_data, 1, "Spectroscopic_")
        IN  IF spec.exc # "None" THEN Fails(spec.exc, spec.file)
            ELSE IF a.main_data_name \in DOMAIN spec.file THEN Fails("ValueError", spec.file)
            ELSE
            LET with_main == WithObject(spec.file, a.main_data_name,
                               Dataset(a.main_data,
                                       SetAttr(SetAttr(NoAttrs, "quantity", a.quantity),
                                               "units", a.units)))
                made_main == link_as_main(with_main, a.main_data_name, pos.inds, pos.vals,
                                       spec.inds, spec.vals)
            IN  IF made_main.exc # "None" THEN Fails(made_main.exc, made_main.file)
                ELSE [exc |-> "None", file |-> made_main.file, h5_main |-> a.main_data_name]

\* ------------------------------------------------ write_reduced_anc_dsets
\* a[mask]: the entries of a at the places where the boolean mask holds
Masked(a, mask) ==
    LET Held(i) == mask[i]
        places == SelectSeq([i \in 1..Len(a) |-> i], Held)
    IN  [k \in 1..Len(places) |-> a[places[k]]]

\* all_dim_names.index(cur_dim), from 1
IndexOf(all_names, cur_dim) ==
    CHOOSE i \in 1..Len(all_names) :
        all_names[i] = cur_dim /\ \A j \in 1..(i - 1) : all_names[j] # cur_dim

\* keep_dim (lines 1938-1941)
KeepDim(all_names, dim_name) == [i \in 1..Len(all_names) |-> all_names[i] \notin Range(dim_name)]

\* faulty variant: some dropped dimension is at its minimum
StepStarts_AnyDropped(ind_mat, all_names, dim_name) ==
    LET rows == [k \in 1..Len(dim_name) |-> ind_mat[IndexOf(all_names, dim_name[k])]]
        lowest == [k \in 1..Len(dim_name) |-> np_min(rows[k])] \o <<>>
    IN  [s \in 1..Len(ind_mat[1]) |-> \E k \in 1..Len(dim_name) : rows[k][s] = lowest[k]]
            \o <<>>

\* step_starts (lines 1939-1952): every dropped dimension is at its minimum
StepStarts(ind_mat, all_names, dim_name) ==
    LET rows == [k \in 1..Len(dim_name) |-> ind_mat[IndexOf(all_names, dim_name[k])]]
        lowest == [k \in 1..Len(dim_name) |-> np_min(rows[k])] \o <<>>
    IN  [s \in 1..Len(ind_mat[1]) |-> \A k \in 1..Len(dim_name) : rows[k][s] = lowest[k]]
            \o <<>>

\* mat[keep_dim, :][:, step_starts] of a matrix with dimensions as rows
Reduced(mat, keep_dim, step_starts) ==
    LET rows == Masked(mat, keep_dim)
    IN  [i \in 1..Len(rows) |-> Masked(rows[i], step_starts)]

LabelledDataset(mat, labels, units) ==
    [kind |-> "Dataset", shape |-> <<Len(mat), Len(mat[1])>>, attrs |-> NoAttrs,
     mat |-> mat, labels |-> labels, units |-> units]

\* faulty variant: all rows removed, an empty matrix
SingleStep_Empty ==
    [kind |-> "Dataset", shape |-> <<0, 1>>, attrs |-> NoAttrs,
     mat |-> <<>>, labels |-> <<>>, units |-> <<>>]

\* the dataset written when every dimension is dropped (lines 1995-2002)
SingleStep == LabelledDataset(<<<<0>>>>, <<"Single_Step">>, <<"a. u.">>)

\* is_spec when it is not given (lines 1893-1900): "ValueError", "True" or "False"
SniffIsSpec(ind_mat) ==
    IF Len(ind_mat) = Len(ind_mat[1]) THEN "ValueError"
    ELSE IF Len(ind_mat) < Len(ind_mat[1]) THEN "True"
    ELSE "False"

\* h5_inds and h5_vals are names of objects of the file, dim_name a list of
\* names, is_spec "None", "True" or "False"; returns [exc, file, inds, vals]
\* faulty variant: the index dataset is written before the call is refused
Refused_HalfWritten(file, e) ==
    [exc |-> e, file |-> WithObject(file, "Position_Indices", SingleStep),
     inds |-> "", vals |-> ""]

\* a raise before any create_dataset (lines 1871-1961): the file is as it was
Refused(file, e) == [exc |-> e, file |-> file, inds |-> "", vals |-> ""]

write_reduced_anc_dsets(file, h5_inds, h5_vals, dim_name, is_spec) ==
    LET Fails(e) == Refused(file, e)
    IN
    IF file[h5_inds].kind # "Dataset" \/ file[h5_vals].kind # "Dataset" THEN Fails("TypeError")
    ELSE
    LET all_dim_names == file[h5_inds].labels
        guess == IF is_spec = "None" THEN SniffIsSpec(file[h5_inds].mat) ELSE is_spec
        basename == IF guess = "True" THEN "Spectroscopic" ELSE "Position"
    IN
    IF \E k \in 1..Len(dim_name) : dim_name[k] \notin Range(all_dim_names) THEN Fails("KeyError")
    ELSE IF guess = "ValueError" THEN Fails("ValueError")
    ELSE IF basename \o "_Indices" \in DOMAIN file \/ basename \o "_Values" \in DOMAIN file
    THEN Fails("KeyError")
    ELSE IF Range(dim_name) # Range(all_dim_names)
    THEN
        LET ind_mat == IF guess = "True" THEN file[h5_inds].mat
                       ELSE np_transpose2(file[h5_inds].mat)
            val_mat == IF guess = "True" THEN file[h5_vals].mat
                       ELSE np_transpose2(file[h5_vals].mat)
        IN
        IF Len(dim_name) = 0 THEN Fails("ValueError")
        ELSE IF Len(ind_mat) # Len(all_dim_names) THEN Fails("IndexError")
        ELSE
        LET keep_dim == KeepDim(all_dim_names, dim_name)
            step_starts == StepStarts(ind_mat, all_dim_names, dim_name)
            new_inds == Reduced(ind_mat, keep_dim, step_starts)
            new_vals == Reduced(val_mat, keep_dim, step_starts)
            labels == Masked(file[h5_inds].labels, keep_dim)
            units == Masked(file[h5_inds].units, keep_dim)
            Oriented(m) == IF guess = "True" THEN m ELSE np_transpose2(m)
        IN  [exc |-> "None",
             file |-> WithObject(WithObject(file, basename \o "_Indices",
                                     LabelledDataset(Oriented(new_inds), labels, units)),
                                 basename \o "_Values",
                                 LabelledDataset(Oriented(new_vals), labels, units)),
             inds |-> basename \o "_Indices", vals |-> basename \o "_Values"]
    ELSE
        [exc |-> "None",
         file |-> WithObject(WithObject(file, basename \o "_Indices", SingleStep),
                             basename \o "_Values", SingleStep),
         inds |-> basename \o "_Indices", vals |-> basename \o "_Values"]

\* ---------------------------------------- assign_group_index and callers
\* a python string is the sequence of its characters, each a string of length 1
Digits == <<"0", "1", "2", "3", "4", "5", "6", "7", "8", "9">>

startswith(s, prefix) == Len(prefix) <= Len(s) /\ SubSeq(s, 1, Len(prefix)) = prefix

endswith(s, suffix) ==
    Len(suffix) <= Len(s) /\ SubSeq(s, Len(s) - Len(suffix) + 1, Len(s)) = suffix

\* s.replace(old, ''): every occurrence of old, from the left, is taken out
RECURSIVE str_remove(_, _)
str_remove(s, old) ==
    IF s = <<>> THEN <<>>
    ELSE IF startswith(s, old) THEN str_remove(SubSeq(s, Len(old) + 1, Len(s)), old)
    ELSE <<Head(s)>> \o str_remove(Tail(s), old)

\* s.strip(): blanks at both ends are taken off
RECURSIVE str_strip(_)
str_strip(s) ==
    IF s = <<>> THEN s
    ELSE IF Head(s) = " " THEN str_strip(Tail(s))
    ELSE IF s[Len(s)] = " " THEN str_strip(SubSeq(s, 1, Len(s) - 1))
    ELSE s

\* int(s) accepts digits, with single underscores between them, and blanks around
IsIntLiteral(s) ==
    LET t == str_strip(s)
    IN  /\ t # <<>>
        /\ \A i \in 1..Len(t) : t[i] \in Range(Digits) \cup {"_"}
        /\ t[1] # "_" /\ t[Len(t)] # "_"
        /\ \A i \in 1..(Len(t) - 1) : ~(t[i] = "_" /\ t[i + 1] = "_")

DigitValue(c) == (CHOOSE k \in 1..10 : Digits[k] = c) - 1

\* int(s) of a literal
RECURSIVE int(_)
int(s) ==
    LET t == str_remove(str_strip(s), <<"_">>)
    IN  IF t = <<>> THEN 0
        ELSE 10 * int(SubSeq(t, 1, Len(t) - 1)) + DigitValue(t[Len(t)])

\* str(n), n >= 0
RECURSIVE str(_)
str(n) == IF n < 10 THEN <<Digits[n + 1]>> ELSE str(n \div 10) \o <<Digits[(n % 10) + 1]>>

\* '{:03d}'.format(index): padded with zeros to 3 digits, longer if need be
Format03d(index) ==
    LET digits == str(index)
    IN  [i \in 1..(3 - Len(digits)) |-> "0"] \o digits

\* lines 2045-2048: 0, or one more than the largest index found
NextIndex(previous_indices) ==
    IF previous_indices = {} THEN 0
    ELSE (CHOOSE n \in previous_indices : \A k \in previous_indices : k <= n) + 1

\* [exc, val]: the name for the next group of this base name
assign_group_index(file, base_name_in) ==
    IF Len(base_name_in) = 0 THEN Raise("ValueError")
    ELSE
    LET base_name == IF endswith(base_name_in, <<"_">>) THEN base_name_in
                     ELSE base_name_in \o <<"_">>
        found == {item_name \in DOMAIN file :
                     file[item_name].kind = "Group" /\ startswith(item_name, base_name)}
    IN  IF \E item_name \in found : ~IsIntLiteral(str_remove(item_name, base_name))
        THEN Raise("ValueError")       \* int() of what is left of the name
        ELSE Returns(base_name
                     \o Format03d(NextIndex({int(str_remove(item_name, base_name)) :
                                                 item_name \in found})))

\* [exc, file, name]: the parent group as the call leaves it, and the new group
create_indexed_group(file, base_name_in) ==
    LET base_name == str_strip(base_name_in)
    IN  IF Len(base_name) = 0 THEN [exc |-> "ValueError", file |-> file, name |-> <<>>]
        ELSE
        LET group_name == assign_group_index(file, base_name)
        IN  IF group_name.exc # "None"
            THEN [exc |-> group_name.exc, file |-> file, name |-> <<>>]
            ELSE IF group_name.val \in DOMAIN file
            THEN [exc |-> "ValueError", file |-> file, name |-> <<>>]   \* create_group
            ELSE [exc |-> "None", file |-> WithObject(file, group_name.val, Group),
                  name |-> group_name.val]

\* ------------------------------------------------------ reshape_to_n_dims
PosLabel(i) == <<"Position Dimension", i>>
SpecLabel(i) == <<"Spectral Dimension", i>>

\* labs[sort]: numpy fancy indexing of the label array by a sort order
TakeLabels(labs, sort) == [i \in 1..Len(sort) |-> labs[sort[i] + 1]]

\* np.argwhere(all_labels == lab): the set of 0-based places where lab stands
ArgWhere(all_labels, lab) == {i - 1 : i \in {j \in 1..Len(all_labels) : all_labels[j] = lab}}

\* faulty variant: the last tier hands back the data flattened to one axis
KeepTwoD_Flattened(main, get_lab) ==
    [exc |-> "None", ds_Nd |-> Array(<<Len(main.data)>>, main.data), success |-> "False",
     labels |-> IF get_lab THEN <<"Position", "Spectral Step">> ELSE <<>>]

\* the last tier: the dataset is kept in 2-D form
KeepTwoD(main, get_lab) ==
    [exc |-> "None", ds_Nd |-> main, success |-> "False",
     labels |-> IF get_lab THEN <<"Position", "Spectral Step">> ELSE <<>>]

reshape_to_n_dims(main, pos, spec, get_lab, sort) ==
    IF pos = None /\ spec = None THEN Raise("ValueError")      \* not a Main dataset
    ELSE IF pos # None /\ Len(pos) # main.shape[1] THEN Raise("ValueError")
    ELSE IF spec # None /\ Len(spec[1]) # main.shape[2] THEN Raise("ValueError")
    ELSE
    LET ds_pos == IF pos = None THEN [r \in 1..main.shape[1] |-> <<r - 1>>] ELSE pos
        ds_spec == IF spec = None THEN <<[c \in 1..main.shape[2] |-> c - 1]>> ELSE spec
        pos_labs == [i \in 1..Len(ds_pos[1]) |-> PosLabel(i - 1)]
        spec_labs == [i \in 1..Len(ds_spec) |-> SpecLabel(i - 1)]
        pos_sort == get_sort_order(np_transpose2(ds_pos))
        spec_sort == get_sort_order(ds_spec)
        pos_dims == get_dimensionality(np_transpose2(ds_pos), Sort(pos_sort))
        spec_dims == get_dimensionality(ds_spec, Sort(spec_sort))
    IN  IF pos_dims.exc # "None" THEN pos_dims
        ELSE IF spec_dims.exc # "None" THEN spec_dims
        ELSE
        LET full == np_ndarray_reshape(main, Reversed(pos_dims.val) \o Reversed(spec_dims.val))
            by_pos == np_ndarray_reshape_infer(main, Reversed(pos_dims.val))
            all_labels == Reversed(TakeLabels(pos_labs, pos_sort))
                              \o Reversed(TakeLabels(spec_labs, spec_sort))
            wanted == IF sort
                      THEN TakeLabels(pos_labs, pos_sort) \o TakeLabels(spec_labs, spec_sort)
                      ELSE pos_labs \o spec_labs
        IN  IF full.exc # "None"
            THEN IF by_pos.exc # "None"
                 THEN KeepTwoD(main, get_lab)
                 ELSE IF get_lab
                 THEN Raise("TypeError")     \* ['Position'] + spec_labs: list + str ndarray
                 ELSE [exc |-> "None", ds_Nd |-> by_pos.val, success |-> "Positions",
                       labels |-> <<>>]
            ELSE IF \E i \in 1..Len(wanted) : Cardinality(ArgWhere(all_labels, wanted[i])) # 1
            THEN Raise("ValueError")         \* swap_axes is ragged: no axis for a label
            ELSE
            LET swap_axes == [i \in 1..Len(wanted) |->
                                 CHOOSE a \in ArgWhere(all_labels, wanted[i]) : TRUE]
                swapped == np_ndarray_transpose(full.val, swap_axes)
            IN  IF swapped.exc # "None" THEN swapped
                ELSE [exc |-> "None", ds_Nd |-> swapped.val, success |-> "True",
                      labels |-> IF get_lab THEN TakeLabels(all_labels, swap_axes) ELSE <<>>]

\* ---------------------------------------------------- reshape_from_n_dims
\* python's s[:b], b possibly negative
SliceTo(s, b) == Slice(s, 0, IF b >= 0 THEN b ELSE IF Len(s) + b > 0 THEN Len(s) + b ELSE 0)

AllIn(dims, shape) == \A i \in 1..Len(dims) : dims[i] \in Range(shape)

\* a sort order built for a side that was not given is reversed
SynthSort(sort_order, not_given) == IF not_given THEN Reversed(sort_order) ELSE sort_order

\* faulty variant: the test for missing indices comes after the early return for rank < 2
NeitherGiven_AfterRank(data_nd, pos, spec) ==
    spec = None /\ pos = None /\ ndim(data_nd) >= 2

\* neither h5_pos nor h5_spec was given
NeitherGiven(data_nd, pos, spec) == spec = None /\ pos = None

\* the last part of the function, once ds_pos and ds_spec are both known
FromNDimsTail(data_nd, ds_pos, ds_spec, pos_none, spec_none) ==
    LET pos_sort0 == IF MatSize(ds_pos) = 1 THEN <<>> ELSE get_sort_order(np_transpose2(ds_pos))
        spec_sort0 == IF MatSize(ds_spec) = 1 THEN <<>> ELSE get_sort_order(ds_spec)
        spec_sort == SynthSort(spec_sort0, spec_none)
        pos_sort == SynthSort(pos_sort0, pos_none)
    IN  IF MatSize(ds_spec) = 1
        THEN Raise("TypeError")              \* spec_sort is the list []: [] + len(pos_sort)
        ELSE
        LET swap_axes == Reversed(pos_sort)
                             \o [i \in 1..Len(spec_sort) |-> Reversed(spec_sort)[i] + Len(pos_sort)]
            data_n_dim_2 == np_ndarray_transpose(data_nd, swap_axes)
        IN  IF data_n_dim_2.exc # "None" THEN data_n_dim_2
            ELSE LET ds_2d == np_ndarray_reshape(data_n_dim_2.val,
                                                 <<Len(ds_pos), Len(ds_spec[1])>>)
                 IN  IF ds_2d.exc # "None" THEN ds_2d
                     ELSE [exc |-> "None", ds_2d |-> ds_2d.val, success |-> "True"]

reshape_from_n_dims(data_nd, pos, spec) ==
    IF NeitherGiven(data_nd, pos, spec) THEN Raise("ValueError")
    ELSE IF ndim(data_nd) < 2
    THEN [exc |-> "None", ds_2d |-> data_nd, success |-> "True"]
    ELSE IF spec = None
    THEN LET pos_dims == get_dimensionality(pos, Sort(get_sort_order(pos)))
         IN  IF pos_dims.exc # "None" THEN pos_dims
             ELSE IF ~AllIn(pos_dims.val, data_nd.shape) THEN Raise("ValueError")
             ELSE LET spec_dims == Slice(data_nd.shape, Len(pos_dims.val), ndim(data_nd))
                      ds_spec == make_indices_matrix(spec_dims, FALSE)
                  IN  IF ds_spec.exc # "None" THEN ds_spec
                      ELSE FromNDimsTail(data_nd, pos, ds_spec.val, FALSE, TRUE)
    ELSE IF pos = None
    THEN LET spec_dims == get_dimensionality(spec, Sort(get_sort_order(spec)))
         IN  IF spec_dims.exc # "None" THEN spec_dims
             ELSE IF ~AllIn(spec_dims.val, data_nd.shape) THEN Raise("ValueError")
             ELSE LET pos_dims == SliceTo(data_nd.shape, ndim(data_nd) - Len(spec_dims.val))
                      ds_pos == make_indices_matrix(pos_dims, TRUE)
                  IN  IF ds_pos.exc # "None" THEN ds_pos
                      ELSE FromNDimsTail(data_nd, ds_pos.val, spec, TRUE, FALSE)
    ELSE IF Len(pos) * Len(spec[1]) # np_prod(data_nd.shape) THEN Raise("ValueError")
    ELSE IF Len(pos[1]) + Len(spec) # ndim(data_nd)
            /\ ~(MatSize(pos) = 1 \/ MatSize(spec) = 1)
    THEN Raise("ValueError")
    ELSE FromNDimsTail(data_nd, pos, spec, FALSE, FALSE)

\* ================================================================ state
VARIABLES
    pc,              \* "input", then the name of the last call made
    pos_dim_sizes,   \* sizes of the Position dimensions the indices were built from
    spec_dim_sizes,  \* sizes of the Spectroscopic dimensions
    h5_main,         \* the 2-D array [numPositions, numSpectra]
    h5_pos,          \* Position indices [numPositions, k], or None
    h5_spec,         \* Spectroscopic indices [m, numSpectra], or None
    get_labels,      \* argument of reshape_to_n_dims
    sort_dims,       \* argument of reshape_to_n_dims
    data_n_dim,      \* argument of reshape_from_n_dims
    ds_index,        \* argument of get_sort_order / get_dimensionality
    index_sort,      \* argument of get_dimensionality
    ret_nd,          \* what reshape_to_n_dims returned
    ret_2d,          \* what reshape_from_n_dims returned
    change_sort,     \* what get_sort_order returned
    sorted_dims      \* what get_dimensionality returned

VARIABLES
    ds_inds,         \* argument of get_unit_values: index matrix and its dtype
    ds_vals,         \* argument of get_unit_values: value matrix
    all_dim_names,   \* argument of get_unit_values
    dim_names,       \* argument of get_unit_values
    is_spec,         \* argument of get_unit_values: "None", "True" or "False"
    dimensions,      \* tick values of the dimensions the matrices were built from
    unit_values      \* what get_unit_values returned

VARIABLES
    h5_file,         \* the HDF5 file: name -> object
    h5_raw,          \* name of the dataset write_main_dataset returned, "" if none
    written,         \* how write_main_dataset ended
    is_main,         \* what check_if_main returned, and for which object
    shelf            \* attributes of the main dataset edited since: name -> original

storeVars == <<h5_file, h5_raw, written, is_main, shelf>>

VARIABLES
    red_args,        \* arguments of write_reduced_anc_dsets
    reduced          \* how write_reduced_anc_dsets ended and the datasets it returned

reduceVars == <<red_args, reduced>>

VARIABLES
    build_args,      \* arguments of build_ind_val_matrices
    built,           \* what build_ind_val_matrices returned
    inferred         \* what create_spec_inds_from_vals returned

buildVars == <<build_args, built, inferred>>

VARIABLES
    linked,          \* how link_as_main ended, and its arguments
    reduced_twice,   \* how a second write_reduced_anc_dsets, on the result of the first, ended
    created          \* how the last create_indexed_group ended

\* what the index builder leaves alone
callVars == <<linked, reduced_twice, created>>

\* the state of the index builder, of link_as_main and of the calls above
extraVars == <<buildVars, callVars>>

\* the state of the functions other than the reshape engine
laterVars == <<ds_inds, ds_vals, all_dim_names, dim_names, is_spec, dimensions,
               unit_values, storeVars, reduceVars, extraVars>>

vars == <<pc, pos_dim_sizes, spec_dim_sizes, h5_main, h5_pos, h5_spec, get_labels,
          sort_dims, data_n_dim, ds_index, index_sort, ret_nd, ret_2d, change_sort,
          sorted_dims, laterVars>>

\* lists of 1..MaxDims dimension sizes, at most MaxSteps steps in all
DimSets ==
    {d \in UNION {[1..k -> 1..MaxSize] : k \in 1..MaxDims} : np_prod(d) <= MaxSteps}

\* a 2-D array whose element [r, c] is its own flat position r * C + c
Tagged(shape) == Array(shape, [j \in 1..np_prod(shape) |-> j - 1])

\* the first n steps of an index matrix (an incomplete measurement when n is short)
FirstRows(m, n) == Slice(m, 0, n)
FirstCols(m, n) == [i \in 1..Len(m) |-> Slice(m[i], 0, n)]

NoCall == [exc |-> "NoCall"]

\* none of the later functions has been given arguments or been called
UnitValuesIdle ==
    /\ ds_inds = None
    /\ ds_vals = None
    /\ all_dim_names = None
    /\ dim_names = None
    /\ is_spec = "None"
    /\ dimensions = None
    /\ unit_values = NoCall

unitVars == <<ds_inds, ds_vals, all_dim_names, dim_names, is_spec, dimensions,
              unit_values>>

\* no file is open
StoreIdle ==
    /\ h5_file = None
    /\ h5_raw = ""
    /\ written = NoCall
    /\ is_main = NoCall
    /\ shelf = None

\* no Main dataset has been written or checked
MainIdle ==
    /\ h5_raw = ""
    /\ written = NoCall
    /\ is_main = NoCall
    /\ shelf = None

ReduceIdle ==
    /\ red_args = None
    /\ reduced = NoCall

BuildIdle ==
    /\ build_args = None
    /\ built = NoCall
    /\ inferred = NoCall

ExtraIdle == BuildIdle /\ linked = NoCall /\ reduced_twice = NoCall /\ created = NoCall

LaterIdle == UnitValuesIdle /\ StoreIdle /\ ReduceIdle /\ ExtraIdle

\* the state of the reshape engine, and its value when none of it is in use
reshapeVars == <<pos_dim_sizes, spec_dim_sizes, h5_main, h5_pos, h5_spec, get_labels,
                 sort_dims, data_n_dim, ds_index, index_sort, ret_nd, ret_2d,
                 change_sort, sorted_dims>>

ReshapeIdle ==
    /\ pos_dim_sizes = None
    /\ spec_dim_sizes = None
    /\ h5_main = None
    /\ h5_pos = None
    /\ h5_spec = None
    /\ get_labels = FALSE
    /\ sort_dims = FALSE
    /\ data_n_dim = None
    /\ ds_index = None
    /\ index_sort = NoSort
    /\ ret_nd = NoCall
    /\ ret_2d = NoCall
    /\ change_sort = None
    /\ sorted_dims = NoCall

\* ------------------------------------------- Spec: 2-D -> N-D -> 2-D
InitReshape ==
    /\ pc = "input"
    /\ pos_dim_sizes \in DimSets
    /\ spec_dim_sizes \in DimSets
    /\ \E R \in 1..np_prod(pos_dim_sizes), C \in 1..np_prod(spec_dim_sizes) :
          /\ h5_main = Tagged(<<R, C>>)
          /\ h5_pos = FirstRows(build_ind_matrix(pos_dim_sizes, FALSE), R)
          /\ h5_spec = FirstCols(build_ind_matrix(spec_dim_sizes, TRUE), C)
    /\ get_labels \in BOOLEAN
    /\ sort_dims \in BOOLEAN
    /\ data_n_dim = None
    /\ ds_index = None
    /\ index_sort = NoSort
    /\ ret_nd = NoCall
    /\ ret_2d = NoCall
    /\ change_sort = None
    /\ sorted_dims = NoCall
    /\ LaterIdle

\* the scenario of the documentation: 4 positions, Bias (5 ticks, fast) and
\* Cycle (3 ticks, slow), default arguments
InitScenario ==
    /\ pc = "input"
    /\ pos_dim_sizes = <<4>>
    /\ spec_dim_sizes = <<5, 3>>
    /\ h5_main = Tagged(<<4, 15>>)
    /\ h5_pos = build_ind_matrix(pos_dim_sizes, FALSE)
    /\ h5_spec = build_ind_matrix(spec_dim_sizes, TRUE)
    /\ get_labels = FALSE
    /\ sort_dims = FALSE
    /\ data_n_dim = None
    /\ ds_index = None
    /\ index_sort = NoSort
    /\ ret_nd = NoCall
    /\ ret_2d = NoCall
    /\ change_sort = None
    /\ sorted_dims = NoCall
    /\ LaterIdle

\* a snake scan: the first dimension runs backwards on every second pass
Snake(rows, sizes) ==
    [i \in 1..Len(rows) |->
        [s \in 1..Len(rows[i]) |->
            IF i = 1 /\ ((s - 1) \div sizes[1]) % 2 = 1
            THEN sizes[1] - 1 - rows[i][s]
            ELSE rows[i][s]]]

\* the rows of a complete index matrix (dimensions as rows), the steps taken
\* in raster or snake order, the dimensions listed fastest or slowest first
Enumerations(sizes) ==
    LET raster == build_ind_matrix(sizes, TRUE)
    IN  {raster, Snake(raster, sizes), Reversed(raster), Reversed(Snake(raster, sizes))}

\* complete index matrices whose steps and dimensions are in any of these orders
InitEnumerated ==
    /\ pc = "input"
    /\ pos_dim_sizes \in DimSets
    /\ spec_dim_sizes \in DimSets
    /\ h5_main = Tagged(<<np_prod(pos_dim_sizes), np_prod(spec_dim_sizes)>>)
    /\ h5_pos \in {np_transpose2(m) : m \in Enumerations(pos_dim_sizes)}
    /\ h5_spec \in Enumerations(spec_dim_sizes)
    /\ get_labels = TRUE
    /\ sort_dims \in BOOLEAN
    /\ data_n_dim = None
    /\ ds_index = None
    /\ index_sort = NoSort
    /\ ret_nd = NoCall
    /\ ret_2d = NoCall
    /\ change_sort = None
    /\ sorted_dims = NoCall
    /\ LaterIdle

Init == InitScenario \/ InitReshape \/ InitEnumerated

ReshapeToNDims ==
    /\ pc = "input"
    /\ h5_main # None
    /\ ret_nd' = reshape_to_n_dims(h5_main, h5_pos, h5_spec, get_labels, sort_dims)
    /\ pc' = "reshape_to_n_dims"
    /\ UNCHANGED <<pos_dim_sizes, spec_dim_sizes, h5_main, h5_pos, h5_spec, get_labels,
                   sort_dims, data_n_dim, ds_index, index_sort, ret_2d, change_sort,
                   sorted_dims>>
    /\ UNCHANGED laterVars

\* the N-D array that came back is handed to reshape_from_n_dims with the same indices
ReshapeBack ==
    /\ pc = "reshape_to_n_dims"
    /\ ret_nd.exc = "None"
    /\ data_n_dim' = ret_nd.ds_Nd
    /\ ret_2d' = reshape_from_n_dims(ret_nd.ds_Nd, h5_pos, h5_spec)
    /\ pc' = "reshape_from_n_dims"
    /\ UNCHANGED <<pos_dim_sizes, spec_dim_sizes, h5_main, h5_pos, h5_spec, get_labels,
                   sort_dims, ds_index, index_sort, ret_nd, change_sort, sorted_dims>>
    /\ UNCHANGED laterVars

Next == ReshapeToNDims \/ ReshapeBack

Spec == Init /\ [][Next]_vars

\* --------------------------- SpecFromNDims: reshape_from_n_dims called directly
\* shapes of 0 to MaxDims + 1 axes
Shapes ==
    {sh \in UNION {[1..n -> 1..MaxSize] : n \in 0..(MaxDims + 1)} : np_prod(sh) <= MaxElems}

InitFromNDims ==
    /\ pc = "input"
    /\ pos_dim_sizes \in DimSets \cup {None}      \* None: h5_pos is not given
    /\ spec_dim_sizes \in DimSets \cup {None}
    /\ h5_pos = IF pos_dim_sizes = None THEN None
                ELSE build_ind_matrix(pos_dim_sizes, FALSE)
    /\ h5_spec = IF spec_dim_sizes = None THEN None
                 ELSE build_ind_matrix(spec_dim_sizes, TRUE)
    /\ data_n_dim \in {Tagged(sh) : sh \in Shapes}
    /\ h5_main = None
    /\ get_labels = FALSE
    /\ sort_dims = FALSE
    /\ ds_index = None
    /\ index_sort = NoSort
    /\ ret_nd = NoCall
    /\ ret_2d = NoCall
    /\ change_sort = None
    /\ sorted_dims = NoCall
    /\ LaterIdle

ReshapeFromNDims ==
    /\ pc = "input"
    /\ data_n_dim # None
    /\ ret_2d' = reshape_from_n_dims(data_n_dim, h5_pos, h5_spec)
    /\ pc' = "reshape_from_n_dims"
    /\ UNCHANGED <<pos_dim_sizes, spec_dim_sizes, h5_main, h5_pos, h5_spec, get_labels,
                   sort_dims, data_n_dim, ds_index, index_sort, ret_nd, change_sort,
                   sorted_dims>>
    /\ UNCHANGED laterVars

NextFromNDims == ReshapeFromNDims

SpecFromNDims == InitFromNDims /\ [][NextFromNDims]_vars

\* -------------------------------- SpecUnitValues: get_unit_values called directly
UnitDimSets ==
    {d \in UNION {[1..k -> 1..MaxSize] : k \in 1..MaxUnitDims} : np_prod(d) <= MaxUnitSteps}

DimNames(n) == [i \in 1..n |-> DimName(i - 1)]

H5Dataset(mat, labels, incomplete) ==
    [mat |-> mat, unsigned |-> TRUE, is_h5 |-> TRUE, labels |-> labels,
     incomplete |-> incomplete]

NdArray(mat, unsigned) ==
    [mat |-> mat, unsigned |-> unsigned, is_h5 |-> FALSE, labels |-> None,
     incomplete |-> FALSE]

\* matrices written by build_ind_val_matrices, as datasets or as numpy arrays
InitBuiltUnits ==
    /\ \E sizes \in UnitDimSets, scheme \in {"up", "down", "flat"},
          is_spectral \in BOOLEAN, as_h5 \in BOOLEAN, incomplete \in BOOLEAN :
          LET ticks == [i \in 1..Len(sizes) |-> Ticks(scheme, i - 1, sizes[i])]
              spec_vals == ValuesOf(Tiling(sizes), ticks)
              inds_mat == build_ind_matrix(sizes, is_spectral)
              vals_mat == IF is_spectral THEN spec_vals ELSE np_transpose2(spec_vals)
              names == DimNames(Len(sizes))
          IN  /\ dimensions = ticks
              /\ (incomplete => as_h5)
              /\ ds_inds = IF as_h5 THEN H5Dataset(inds_mat, names, incomplete)
                           ELSE NdArray(inds_mat, FALSE)
              /\ ds_vals = IF as_h5 THEN H5Dataset(vals_mat, names, FALSE)
                           ELSE NdArray(vals_mat, FALSE)
              /\ all_dim_names = IF as_h5 THEN None ELSE names
              /\ dim_names \in {None, <<DimName(0)>>, <<DimName(Len(sizes) - 1)>>,
                                <<DimName(Len(sizes))>>}
    /\ is_spec \in {"None", "True", "False"}

\* the regular row 0, 1, 0, 1, ...
Alternating(n) == [s \in 1..n |-> (s - 1) % 2]

IndexRows == UNION {[1..n -> 0..MaxIdx] : n \in 1..MaxRowLen}

\* numpy arrays of one arbitrary row, alone or next to a regular row
InitGivenRows ==
    /\ \E r \in IndexRows, unsigned \in BOOLEAN :
          \E mat \in {<<r>>, <<r, Alternating(Len(r))>>, <<Alternating(Len(r)), r>>} :
              LET vals_mat == [i \in 1..Len(mat) |-> [s \in 1..Len(r) |-> 10 + mat[i][s]]]
              IN  /\ ds_inds = NdArray(mat, unsigned)
                  /\ ds_vals \in {NdArray(vals_mat, FALSE),
                                  NdArray(np_transpose2(vals_mat), FALSE)}
                  /\ all_dim_names = DimNames(Len(mat))
    /\ dim_names \in {None, <<DimName(0)>>}
    /\ is_spec = "True"
    /\ dimensions = None

InitUnitValues ==
    /\ pc = "input"
    /\ ReshapeIdle
    /\ StoreIdle
    /\ ReduceIdle
    /\ ExtraIdle
    /\ unit_values = NoCall
    /\ (InitBuiltUnits \/ InitGivenRows)

GetUnitValues ==
    /\ pc = "input"
    /\ ds_inds # None
    /\ unit_values' = get_unit_values(ds_inds, ds_vals, dim_names, all_dim_names, is_spec)
    /\ pc' = "get_unit_values"
    /\ UNCHANGED reshapeVars
    /\ UNCHANGED <<storeVars, reduceVars, extraVars>>
    /\ UNCHANGED <<ds_inds, ds_vals, all_dim_names, dim_names, is_spec, dimensions>>

NextUnitValues == GetUnitValues

SpecUnitValues == InitUnitValues /\ [][NextUnitValues]_vars

\* ------------------------- SpecMain: a Main dataset written, edited and checked
\* the file before the call: a group, 2-D and 1-D Position-like datasets and
\* 2-D and 1-D Spectroscopic-like datasets
ShapedFile(shapes) == [n \in DOMAIN shapes |-> Dataset(shapes[n], NoAttrs)]

Library ==
    WithObject(ShapedFile([P_I |-> <<MaxPos, 1>>, P_V |-> <<MaxPos, 1>>,
                           P1_I |-> <<MaxPos>>, P1_V |-> <<MaxPos>>,
                           S_I |-> <<1, MaxSpec>>, S_V |-> <<1, MaxSpec>>,
                           S1_I |-> <<MaxSpec>>]),
               "G", Group)

\* the same with a 2-D dataset that has 'quantity' and 'units' but no links
LibraryWithBare ==
    WithObject(Library, "Bare",
               Dataset(<<MaxPos, MaxSpec>>,
                       SetAttr(SetAttr(NoAttrs, "quantity", "Current"), "units", "nA")))

\* the dimension lists offered: none, one of the right size, one too long
DimsOffered(n) ==
    {None, <<Dimension(DimName(0), "a.u.", Ticks("up", 0, n))>>,
     <<Dimension(DimName(0), "a.u.", Ticks("up", 0, n + 1))>>}

\* the ancillary pairs offered: none, a 2-D pair, a 1-D pair, a group, half a pair
PairsOffered(two_d, one_d) ==
    {<<None, None>>, <<<<two_d[1]>>, <<two_d[2]>>>>, <<<<one_d[1]>>, <<one_d[2]>>>>,
     <<<<"G">>, <<two_d[2]>>>>, <<<<two_d[1]>>, None>>}

InitMain ==
    /\ pc = "input"
    /\ ReshapeIdle
    /\ UnitValuesIdle
    /\ ReduceIdle
    /\ ExtraIdle
    /\ h5_file \in {Library, LibraryWithBare}
    /\ h5_raw = ""
    /\ written = NoCall
    /\ is_main = NoCall
    /\ shelf = NoAttrs

WriteMainDataset ==
    /\ written = NoCall
    /\ linked = NoCall
    /\ \E editable \in BOOLEAN, quantity \in {"", "Current"}, units \in {"", "nA"},
          main_data_name \in {"Raw_Data", "P_I"},
          main_data \in {<<MaxPos, MaxSpec>>, <<MaxPos>>},
          pos \in PairsOffered(<<"P_I", "P_V">>, <<"P1_I", "P1_V">>),
          spec \in PairsOffered(<<"S_I", "S_V">>, <<"S1_I", "S1_I">>),
          pos_dims \in DimsOffered(MaxPos), spec_dims \in DimsOffered(MaxSpec) :
          LET ret == write_main_dataset(h5_file,
                         [editable |-> editable, quantity |-> quantity, units |-> units,
                          main_data_name |-> main_data_name, main_data |-> main_data,
                          h5_pos_inds |-> pos[1], h5_pos_vals |-> pos[2],
                          h5_spec_inds |-> spec[1], h5_spec_vals |-> spec[2],
                          pos_dims |-> pos_dims, spec_dims |-> spec_dims])
          IN  /\ h5_file' = ret.file
              /\ h5_raw' = ret.h5_main
              /\ written' = [exc |-> ret.exc]
    /\ pc' = "write_main_dataset"
    /\ UNCHANGED <<is_main, shelf>>
    /\ UNCHANGED <<reshapeVars, unitVars, reduceVars, extraVars>>

\* the pairs handed to link_as_main: Position-like, Spectroscopic-like, 1-D,
\* of unequal shapes, and with a group in it
PairsToLink ==
    {<<"P_I", "P_V">>, <<"S_I", "S_V">>, <<"P1_I", "P1_V">>, <<"P_I", "S_V">>, <<"G", "P_V">>}

\* link_as_main called directly on the dataset without links
LinkAsMain ==
    /\ written = NoCall
    /\ linked = NoCall
    /\ "Bare" \in DOMAIN h5_file
    /\ \E pos \in PairsToLink, spec \in PairsToLink :
          LET ret == link_as_main(h5_file, "Bare", pos[1], pos[2], spec[1], spec[2])
          IN  /\ h5_file' = ret.file
              /\ linked' = [exc |-> ret.exc, h5_pos_inds |-> pos[1], h5_pos_vals |-> pos[2],
                            h5_spec_inds |-> spec[1], h5_spec_vals |-> spec[2]]
    /\ is_main' = NoCall
    /\ pc' = "link_as_main"
    /\ UNCHANGED <<h5_raw, written, shelf>>
    /\ UNCHANGED <<reshapeVars, unitVars, reduceVars, buildVars, reduced_twice, created>>

\* the attributes check_if_main looks at
MainAttrs == Range(dset_names) \cup {"quantity", "units"}

MayEdit(key) == key \in DOMAIN shelf \/ Cardinality(DOMAIN shelf) < MaxEdits

Shelved(key) ==
    IF key \in DOMAIN shelf \/ key \notin DOMAIN h5_file[h5_raw].attrs THEN shelf
    ELSE SetAttr(shelf, key, h5_file[h5_raw].attrs[key])

\* del h5_main.attrs[key]
RemoveAttr ==
    /\ h5_raw # ""
    /\ \E key \in MainAttrs \cap DOMAIN h5_file[h5_raw].attrs :
          /\ MayEdit(key)
          /\ shelf' = Shelved(key)
          /\ h5_file' = [h5_file EXCEPT ![h5_raw].attrs = DelAttr(@, key)]
    /\ is_main' = NoCall
    /\ pc' = "edit"
    /\ UNCHANGED <<h5_raw, written>>
    /\ UNCHANGED <<reshapeVars, unitVars, reduceVars, extraVars>>

\* link_h5_obj_as_alias(h5_main, h5_ancillary, alias_name) on the main dataset
Relink ==
    /\ h5_raw # ""
    /\ \E alias_name \in Range(dset_names), h5_ancillary \in DOMAIN h5_file :
          /\ MayEdit(alias_name)
          /\ alias_name \in DOMAIN h5_file[h5_raw].attrs
          /\ h5_file[h5_raw].attrs[alias_name] # h5_ancillary
          /\ shelf' = Shelved(alias_name)
          /\ h5_file' = [h5_file EXCEPT ![h5_raw].attrs = SetAttr(@, alias_name, h5_ancillary)]
    /\ is_main' = NoCall
    /\ pc' = "edit"
    /\ UNCHANGED <<h5_raw, written>>
    /\ UNCHANGED <<reshapeVars, unitVars, reduceVars, extraVars>>

\* the attribute is given its original value again
RestoreAttr ==
    /\ h5_raw # ""
    /\ \E key \in DOMAIN shelf :
          /\ h5_file' = [h5_file EXCEPT ![h5_raw].attrs = SetAttr(@, key, shelf[key])]
          /\ shelf' = DelAttr(shelf, key)
    /\ is_main' = NoCall
    /\ pc' = "edit"
    /\ UNCHANGED <<h5_raw, written>>
    /\ UNCHANGED <<reshapeVars, unitVars, reduceVars, extraVars>>

\* the object checked: the dataset written or, if none was, any object of the file
CheckIfMain ==
    /\ is_main = NoCall
    /\ \E name \in (IF h5_raw # "" THEN {h5_raw} ELSE DOMAIN h5_file) :
          LET ret == check_if_main(h5_file, name)
          IN  is_main' = [exc |-> ret.exc, obj |-> name,
                          val |-> IF ret.exc = "None" THEN ret.val ELSE FALSE]
    /\ pc' = "check_if_main"
    /\ UNCHANGED <<h5_file, h5_raw, written, shelf>>
    /\ UNCHANGED <<reshapeVars, unitVars, reduceVars, extraVars>>

NextMain ==
    WriteMainDataset \/ LinkAsMain \/ RemoveAttr \/ Relink \/ RestoreAttr \/ CheckIfMain

SpecMain == InitMain /\ [][NextMain]_vars

\* ------------------- SpecReduce: write_reduced_anc_dsets on a built pair
AxisNames == <<"X", "Y", "Z", "W", "U">>
AxisUnits == <<"m", "s", "V", "A", "K">>

\* lists of 1..MaxRedDims dimension sizes, each in 1..MaxRedSize
RedDimSets == UNION {[1..k -> 1..MaxRedSize] : k \in 1..MaxRedDims}

\* the lists of names to drop: every sublist of the labels, and an unknown name
DropLists(labels) ==
    {Masked(labels, mask) : mask \in [1..Len(labels) -> BOOLEAN]} \cup {<<"Q">>}

\* the parent group: empty, or with datasets of the default names in it
ParentGroups ==
    {NoAttrs, WithObject(WithObject(NoAttrs, "Spectroscopic_Indices", Dataset(<<1, 1>>, NoAttrs)),
                         "Position_Values", Dataset(<<1, 1>>, NoAttrs))}

SourcePair(parent, d, spec_oriented) ==
    LET spec_inds == Tiling(d)
        spec_vals == ValuesOf(spec_inds, [i \in 1..Len(d) |-> Ticks("up", i - 1, d[i])])
        Oriented(m) == IF spec_oriented THEN m ELSE np_transpose2(m)
        labels == Slice(AxisNames, 0, Len(d))
        units == Slice(AxisUnits, 0, Len(d))
    IN  WithObject(WithObject(parent, "Source_Indices",
                       LabelledDataset(Oriented(spec_inds), labels, units)),
                   "Source_Values", LabelledDataset(Oriented(spec_vals), labels, units))

InitReduce ==
    /\ pc = "input"
    /\ ReshapeIdle
    /\ UnitValuesIdle
    /\ MainIdle
    /\ ExtraIdle
    /\ reduced = NoCall
    /\ \E d \in RedDimSets, spec_oriented \in BOOLEAN, parent \in ParentGroups :
          /\ h5_file = SourcePair(parent, d, spec_oriented)
          /\ \E dim_name \in DropLists(Slice(AxisNames, 0, Len(d))),
                given \in {"None", IF spec_oriented THEN "True" ELSE "False"} :
                red_args = [h5_inds |-> "Source_Indices", h5_vals |-> "Source_Values",
                            dim_name |-> dim_name, is_spec |-> given,
                            spec_oriented |-> spec_oriented,
                            names_free |-> (parent = NoAttrs)]

WriteReducedAncDsets ==
    /\ pc = "input"
    /\ red_args # None
    /\ LET ret == write_reduced_anc_dsets(h5_file, red_args.h5_inds, red_args.h5_vals,
                                          red_args.dim_name, red_args.is_spec)
       IN  /\ h5_file' = ret.file
           /\ reduced' = [exc |-> ret.exc, inds |-> ret.inds, vals |-> ret.vals]
    /\ pc' = "write_reduced_anc_dsets"
    /\ UNCHANGED <<h5_raw, written, is_main, shelf, red_args>>
    /\ UNCHANGED <<reshapeVars, unitVars, extraVars>>

\* a pair returned by write_reduced_anc_dsets, seen from another, empty group
AsSource(file, ret) ==
    WithObject(WithObject(NoAttrs, "First_Indices", file[ret.inds]),
               "First_Values", file[ret.vals])

\* write_reduced_anc_dsets(h5_other_group, h5_inds_new, h5_vals_new, dim_name):
\* [exc, dim_name, inds, vals], the datasets themselves where the call returned
reduce_again(file, ret, dim_name, is_spec_flag) ==
    LET again == write_reduced_anc_dsets(AsSource(file, ret), "First_Indices",
                                         "First_Values", dim_name, is_spec_flag)
    IN  [exc |-> again.exc, dim_name |-> dim_name,
         inds |-> IF again.exc = "None" THEN again.file[again.inds] ELSE None,
         vals |-> IF again.exc = "None" THEN again.file[again.vals] ELSE None]

\* one more dimension is dropped from the pair the first call returned
WriteReducedAgain ==
    /\ pc = "write_reduced_anc_dsets"
    /\ reduced.exc = "None"
    /\ reduced_twice = NoCall
    /\ \E cur_dim \in Range(h5_file[reduced.inds].labels) :
          reduced_twice' = reduce_again(h5_file, reduced, <<cur_dim>>, red_args.is_spec)
    /\ pc' = "write_reduced_anc_dsets again"
    /\ UNCHANGED <<storeVars, reduceVars, buildVars, linked, created>>
    /\ UNCHANGED <<reshapeVars, unitVars>>

NextReduce == WriteReducedAncDsets \/ WriteReducedAgain

SpecReduce == InitReduce /\ [][NextReduce]_vars

\* --------------- SpecBuild: the index builder and its inverse called directly
\* the tick values handed to the builder: no dimension at all, or rising,
\* falling or constant ticks for a list of sizes
TickLists ==
    {<<>>} \cup
    {[i \in 1..Len(sizes) |-> Ticks(scheme, i - 1, sizes[i])] :
        sizes \in UnitDimSets, scheme \in {"up", "down", "flat"}}

InitBuild ==
    /\ pc = "input"
    /\ ReshapeIdle
    /\ UnitValuesIdle
    /\ StoreIdle
    /\ ReduceIdle
    /\ \E ticks \in TickLists, is_spectral \in BOOLEAN :
          build_args = [unit_values |-> ticks, is_spectral |-> is_spectral]
    /\ built = NoCall
    /\ inferred = NoCall
    /\ linked = NoCall
    /\ reduced_twice = NoCall
    /\ created = NoCall

BuildIndValMatrices ==
    /\ pc = "input"
    /\ build_args # None
    /\ built' = build_ind_val_matrices(build_args.unit_values, build_args.is_spectral)
    /\ pc' = "build_ind_val_matrices"
    /\ UNCHANGED <<build_args, inferred>>
    /\ UNCHANGED <<reshapeVars, unitVars, storeVars, reduceVars, callVars>>

\* the inverse is handed the spectroscopic value matrix, or one row of it
CreateSpecIndsFromVals ==
    /\ pc = "build_ind_val_matrices"
    /\ built.exc = "None"
    /\ build_args.is_spectral
    /\ \E rank \in {1, 2} :
          LET a == [ndim |-> rank, mat |-> IF rank = 2 THEN built.vals ELSE built.vals[1]]
              ret == create_spec_inds_from_vals(a)
          IN  inferred' = [exc |-> ret.exc, ndim |-> rank,
                           val |-> IF ret.exc = "None" THEN ret.val ELSE None]
    /\ pc' = "create_spec_inds_from_vals"
    /\ UNCHANGED <<build_args, built>>
    /\ UNCHANGED <<reshapeVars, unitVars, storeVars, reduceVars, callVars>>

NextBuild == BuildIndValMatrices \/ CreateSpecIndsFromVals

SpecBuild == InitBuild /\ [][NextBuild]_vars

\* ------------------- SpecGroups: create_indexed_group called again and again
\* base names: 'A', 'A_B' (of which 'A' is a prefix), ' B' and 'AB'
BaseNames == {<<"A">>, <<"A", "_", "B">>, <<" ", "B">>, <<"A", "B">>}

\* the parent group: empty, or with the group 'A_001' in it
InitGroups ==
    /\ pc = "input"
    /\ ReshapeIdle
    /\ UnitValuesIdle
    /\ MainIdle
    /\ ReduceIdle
    /\ BuildIdle
    /\ linked = NoCall
    /\ reduced_twice = NoCall
    /\ created = NoCall
    /\ h5_file \in {NoAttrs, WithObject(NoAttrs, <<"A", "_", "0", "0", "1">>, Group)}

CreateIndexedGroup ==
    /\ Cardinality(DOMAIN h5_file) < MaxGroups
    /\ \E base_name \in BaseNames :
          LET ret == create_indexed_group(h5_file, base_name)
          IN  /\ h5_file' = ret.file
              /\ created' = [exc |-> ret.exc, base_name |-> base_name, name |-> ret.name]
    /\ pc' = "create_indexed_group"
    /\ UNCHANGED <<h5_raw, written, is_main, shelf>>
    /\ UNCHANGED <<reshapeVars, unitVars, reduceVars, buildVars, linked, reduced_twice>>

NextGroups == CreateIndexedGroup

SpecGroups == InitGroups /\ [][NextGroups]_vars

\* ------------------------------------ SpecSortOrder: get_sort_order called directly
\* every matrix of at most MaxCells entries, each entry in 0..MaxIdx
Matrices ==
    UNION {[1..rc[1] -> [1..rc[2] -> 0..MaxIdx]] :
              rc \in {x \in (1..MaxCells) \X (1..MaxCells) : x[1] * x[2] <= MaxCells}}

\* Bias (5 ticks, fast) and Cycle (3 ticks, slow)
ScenarioMatrix == build_ind_matrix(<<5, 3>>, TRUE)

InitIndexMatrix ==
    /\ pc = "input"
    /\ ds_index \in Matrices \cup {ScenarioMatrix}
    /\ index_sort = NoSort
    /\ pos_dim_sizes = None
    /\ spec_dim_sizes = None
    /\ h5_main = None
    /\ h5_pos = None
    /\ h5_spec = None
    /\ get_labels = FALSE
    /\ sort_dims = FALSE
    /\ data_n_dim = None
    /\ ret_nd = NoCall
    /\ ret_2d = NoCall
    /\ change_sort = None
    /\ sorted_dims = NoCall
    /\ LaterIdle

GetSortOrder ==
    /\ pc = "input"
    /\ ds_index # None
    /\ change_sort' = get_sort_order(ds_index)
    /\ pc' = "get_sort_order"
    /\ UNCHANGED <<pos_dim_sizes, spec_dim_sizes, h5_main, h5_pos, h5_spec, get_labels,
                   sort_dims, data_n_dim, ds_index, index_sort, ret_nd, ret_2d,
                   sorted_dims>>
    /\ UNCHANGED laterVars

NextSortOrder == GetSortOrder

SpecSortOrder == InitIndexMatrix /\ [][NextSortOrder]_vars

\* ---------------------------- SpecDimensionality: get_dimensionality called directly
\* index_sort arguments: None, or up to MaxDims + 1 integers from -1 to MaxDims
SortArgs ==
    {NoSort} \cup {Sort(o) : o \in UNION {[1..n -> -1..MaxDims] : n \in 0..(MaxDims + 1)}}

\* the indices of a list of dimensions, as Spectroscopic rows or as Position columns
InitDimensionality ==
    /\ pc = "input"
    /\ spec_dim_sizes \in DimSets
    /\ \E is_spectral \in BOOLEAN : ds_index = build_ind_matrix(spec_dim_sizes, is_spectral)
    /\ index_sort \in SortArgs
    /\ pos_dim_sizes = None
    /\ h5_main = None
    /\ h5_pos = None
    /\ h5_spec = None
    /\ get_labels = FALSE
    /\ sort_dims = FALSE
    /\ data_n_dim = None
    /\ ret_nd = NoCall
    /\ ret_2d = NoCall
    /\ change_sort = None
    /\ sorted_dims = NoCall
    /\ LaterIdle

GetDimensionality ==
    /\ pc = "input"
    /\ ds_index # None
    /\ sorted_dims' = get_dimensionality(ds_index, index_sort)
    /\ pc' = "get_dimensionality"
    /\ UNCHANGED <<pos_dim_sizes, spec_dim_sizes, h5_main, h5_pos, h5_spec, get_labels,
                   sort_dims, data_n_dim, ds_index, index_sort, ret_nd, ret_2d,
                   change_sort>>
    /\ UNCHANGED laterVars

NextDimensionality == GetDimensionality

SpecDimensionality == InitDimensionality /\ [][NextDimensionality]_vars

\* ================================================================ claims
\* both index matrices are the complete Cartesian tiling of their dimensions
FullTiling ==
    /\ h5_pos = build_ind_matrix(pos_dim_sizes, FALSE)
    /\ h5_spec = build_ind_matrix(spec_dim_sizes, TRUE)

\* C1: for index matrices built by Cartesian tiling (dimension sizes >= 1, a group
\* of one step included), reshape_to_n_dims followed by reshape_from_n_dims with the
\* same index matrices returns status True and the original 2-D array
C1_RoundTrip ==
    (FullTiling /\ ~sort_dims) =>
        /\ pc = "reshape_to_n_dims" => ret_nd.exc = "None"
        /\ pc = "reshape_from_n_dims" =>
              /\ ret_2d.exc = "None"
              /\ ret_2d.success = "True"
              /\ ret_2d.ds_2d = h5_main

\* C2: the [4, 15] array with one Position dimension of 4 and the Spectroscopic
\* rows Bias (5, fast), Cycle (3, slow) comes back with status True and shape
\* [4, 3, 5]; a fully successful result is laid out [positions slowest to fastest,
\* spectroscopic slowest to fastest]
C2_SlowestFirstShape ==
    (pc = "reshape_to_n_dims" /\ FullTiling /\ ~sort_dims) =>
        /\ (pos_dim_sizes = <<4>> /\ spec_dim_sizes = <<5, 3>>) =>
              /\ ret_nd.exc = "None"
              /\ ret_nd.success = "True"
              /\ ret_nd.ds_Nd.shape = <<4, 3, 5>>
        /\ (ret_nd.exc = "None" /\ ret_nd.success = "True") =>
              ret_nd.ds_Nd.shape = Reversed(pos_dim_sizes) \o Reversed(spec_dim_sizes)

\* distinct values of every dimension (a row of a dimensions-as-rows matrix)
DistinctCounts(rows) == [i \in 1..Len(rows) |-> np_unique_len(rows[i])]

\* the same counts, fastest changing dimension first
SortedCounts(rows) ==
    LET order == Reversed(np_argsort([i \in 1..Len(rows) |-> ChangeCount(rows[i])]))
    IN  [i \in 1..Len(rows) |-> np_unique_len(rows[order[i] + 1])]

PosCard == np_prod(DistinctCounts(np_transpose2(h5_pos)))
SpecCard == np_prod(DistinctCounts(h5_spec))
MainSize == h5_main.shape[1] * h5_main.shape[2]

\* C3: reshape_to_n_dims never raises on a size mismatch; with P and S the products
\* of the distinct-value counts per dimension, status is True exactly when
\* P * S = R * C, "Positions" exactly when P * S # R * C and P divides R * C (shape:
\* reversed position sizes, then one axis of R * C / P), and False otherwise
C3_StatusTiers ==
    pc = "reshape_to_n_dims" =>
        /\ ret_nd.exc = "None"
        /\ ret_nd.success \in {"True", "Positions", "False"}
        /\ ret_nd.success = "True" <=> PosCard * SpecCard = MainSize
        /\ ret_nd.success = "Positions" <=>
              (PosCard * SpecCard # MainSize /\ MainSize % PosCard = 0)
        /\ ret_nd.success = "Positions" =>
              ret_nd.ds_Nd.shape = Append(Reversed(SortedCounts(np_transpose2(h5_pos))),
                                          MainSize \div PosCard)

\* the sizes reshape_to_n_dims works with fit neither the whole array nor its rows
BothReshapesFail ==
    LET pos_dims == get_dimensionality(np_transpose2(h5_pos), NoSort).val
        spec_dims == get_dimensionality(h5_spec, NoSort).val
    IN  /\ np_prod(pos_dims) * np_prod(spec_dims) # MainSize
        /\ MainSize % np_prod(pos_dims) # 0

\* C4: when the full reshape and the position-only reshape both fail, the call
\* returns status False and the original 2-D array, same shape and same elements
C4_FalseKeepsTwoD ==
    (pc = "reshape_to_n_dims" /\ BothReshapesFail) =>
        /\ ret_nd.exc = "None"
        /\ ret_nd.success = "False"
        /\ ret_nd.ds_Nd = h5_main

C4_Witness ==
    /\ pc = "reshape_to_n_dims"
    /\ BothReshapesFail
    /\ ret_nd.exc = "None"
    /\ ret_nd.success = "False"
    /\ ret_nd.ds_Nd.shape = <<3, 2>>
    /\ Len(h5_pos[1]) = 2

\* ----------------------------------------------- reshape_from_n_dims, direct
BothGiven == h5_pos # None /\ h5_spec # None
OnlyPosGiven == h5_pos # None /\ h5_spec = None
OnlySpecGiven == h5_pos = None /\ h5_spec # None

Returned2D(N, M) ==
    /\ ret_2d.exc = "None"
    /\ ret_2d.success = "True"
    /\ ret_2d.ds_2d.shape = <<N, M>>

\* the N-D array has lost the axes of a group that has a single entry
SqueezedPos == MatSize(h5_pos) = 1 /\ data_n_dim.shape = spec_dim_sizes
SqueezedSpec == MatSize(h5_spec) = 1 /\ data_n_dim.shape = pos_dim_sizes

\* C5: with both index matrices given and an N-D array that has fewer axes than
\* dimensions because one whole group has a single entry (squeezed out), the call
\* returns status True and shape [numPositions, numSpectra], for a squeezed
\* Position group and for a squeezed Spectroscopic group alike
C5_SqueezedTolerated ==
    (pc = "reshape_from_n_dims" /\ BothGiven
        /\ ndim(data_n_dim) < Len(h5_pos[1]) + Len(h5_spec)
        /\ (SqueezedPos \/ SqueezedSpec)) =>
        Returned2D(Len(h5_pos), Len(h5_spec[1]))

SynthSpecLayout ==
    /\ OnlyPosGiven
    /\ ndim(data_n_dim) > Len(pos_dim_sizes)
    /\ Slice(data_n_dim.shape, 0, Len(pos_dim_sizes)) = Reversed(pos_dim_sizes)

SynthPosLayout ==
    /\ OnlySpecGiven
    /\ ndim(data_n_dim) > Len(spec_dim_sizes)
    /\ Slice(data_n_dim.shape, ndim(data_n_dim) - Len(spec_dim_sizes), ndim(data_n_dim))
          = Reversed(spec_dim_sizes)

\* element [r, c] of the 2-D result, which is the flat position it had in data_n_dim
Elem2D(r, c) == ret_2d.ds_2d.data[r * ret_2d.ds_2d.shape[2] + c + 1]

\* columns are the row-major flattening of the trailing (synthesized) axes
SpecIsRowMajor ==
    LET k == Len(pos_dim_sizes)
        trailing == Slice(data_n_dim.shape, k, ndim(data_n_dim))
    IN  /\ Returned2D(np_prod(pos_dim_sizes), np_prod(trailing))
        /\ \A r \in 0..(np_prod(pos_dim_sizes) - 1), c \in 0..(np_prod(trailing) - 1) :
              Slice(Unravel(Elem2D(r, c), data_n_dim.shape), k, ndim(data_n_dim))
                  = Unravel(c, trailing)

\* rows are the row-major flattening of the leading (synthesized) axes
PosIsRowMajor ==
    LET k == ndim(data_n_dim) - Len(spec_dim_sizes)
        leading == Slice(data_n_dim.shape, 0, k)
    IN  /\ Returned2D(np_prod(leading), np_prod(spec_dim_sizes))
        /\ \A r \in 0..(np_prod(leading) - 1), c \in 0..(np_prod(spec_dim_sizes) - 1) :
              Slice(Unravel(Elem2D(r, c), data_n_dim.shape), 0, k) = Unravel(r, leading)

AxesAtLeast(n) == \A i \in 1..ndim(data_n_dim) : data_n_dim.shape[i] >= n

\* C7: with one index matrix given, the other group is synthesized from the
\* remaining axes (trailing for Spectroscopic, leading for Position), and for every
\* array laid out [positions slow to fast, spectroscopic slow to fast] with axis
\* sizes >= 1 the call succeeds and flattens the synthesized axes row-major
C7_SynthesizedRowMajor ==
    pc = "reshape_from_n_dims" =>
        /\ (SynthSpecLayout /\ AxesAtLeast(1)) => SpecIsRowMajor
        /\ (SynthPosLayout /\ AxesAtLeast(1)) => PosIsRowMajor

\* -------------------------------------------------- get_sort_order, direct
\* adjacent step pairs (i - 1, i), 1 <= i < numSteps, whose values differ
Transitions(row) == Cardinality({i \in 2..Len(row) : row[i] # row[i - 1]})

\* the place (from 1) at which 0-based row index i stands in the order
PlaceOf(order, i) == CHOOSE a \in 1..Len(order) : order[a] = i

IsPermutationOfRows(order, n) == Len(order) = n /\ Range(order) = 0..(n - 1)

\* C8: get_sort_order returns a permutation of the row indices in descending order
\* of the number of adjacent step pairs (i - 1, i), 1 <= i < numSteps, that differ;
\* for the [2, 15] matrix of Bias and Cycle the result is [0, 1]
C8_DescendingTransitions ==
    pc = "get_sort_order" =>
        /\ IsPermutationOfRows(change_sort, Len(ds_index))
        /\ \A a, b \in 1..Len(change_sort) :
              a < b => Transitions(ds_index[change_sort[a] + 1])
                          >= Transitions(ds_index[change_sort[b] + 1])
        /\ ds_index = ScenarioMatrix => change_sort = <<0, 1>>

C10_OnlyPermutations ==
    (pc = "get_dimensionality" /\ ~index_sort.is_none) =>
        LET rows == build_ind_matrix(spec_dim_sizes, TRUE)
            order == index_sort.val
        IN  IF IsPermutationOfRows(order, Len(rows))
            THEN /\ sorted_dims.exc = "None"
                 /\ sorted_dims.val = [i \in 1..Len(order) |-> np_unique_len(rows[order[i] + 1])]
            ELSE sorted_dims.exc # "None"

\* ------------------------------------------------ get_unit_values, direct
\* the matrices were built by Cartesian tiling of at least 2 dimensions of at
\* least 2 ticks each, and the call names their orientation or leaves it open
BuiltFromTwoUp ==
    /\ dimensions # None
    /\ Len(dimensions) >= 2
    /\ \A i \in 1..Len(dimensions) : Len(dimensions[i]) >= 2
    /\ ~ds_inds.incomplete
    /\ is_spec \in {"None", IF Len(ds_inds.mat) = Len(dimensions) THEN "True" ELSE "False"}

NamesWanted ==
    IF dim_names = None THEN Range(DimNames(Len(dimensions))) ELSE Range(dim_names)

\* C11: build then extract: for matrices built by Cartesian tiling of 2 or more
\* dimensions of 2 or more ticks, in either orientation, get_unit_values returns
\* for every dimension asked for exactly its original ordered tick values
C11_BuildExtractRoundTrip ==
    (pc = "get_unit_values" /\ BuiltFromTwoUp
        /\ NamesWanted \subseteq Range(DimNames(Len(dimensions)))) =>
        /\ unit_values.exc = "None"
        /\ DOMAIN unit_values.val = NamesWanted
        /\ \A i \in 1..Len(dimensions) :
              DimName(i - 1) \in NamesWanted =>
                  unit_values.val[DimName(i - 1)] = dimensions[i]

C11_Witness ==
    /\ pc = "get_unit_values"
    /\ BuiltFromTwoUp
    /\ is_spec = "None"
    /\ dim_names = None
    /\ Len(ds_inds.mat) = 12
    /\ dimensions = <<Ticks("down", 0, 2), Ticks("down", 1, 3), Ticks("down", 2, 2)>>
    /\ unit_values.exc = "None"
    /\ unit_values.val[DimName(1)] = <<12, 11, 10>>

\* the call gets as far as the loop over the dimensions: numpy arrays of one
\* shape in spectroscopic orientation, one name per row, known names asked for
LoopReached ==
    /\ pc = "get_unit_values"
    /\ ~ds_inds.is_h5
    /\ is_spec = "True"
    /\ Len(ds_vals.mat) = Len(ds_inds.mat)
    /\ Len(ds_vals.mat[1]) = Len(ds_inds.mat[1])
    /\ Len(all_dim_names) = Len(ds_inds.mat)
    /\ (dim_names # None => Range(dim_names) \subseteq Range(all_dim_names))

\* positions (from 1) at which a row equals its minimum
MinPlaces(row) == {i \in 1..Len(row) : \A j \in 1..Len(row) : row[i] <= row[j]}

\* gaps between consecutive such positions
Gaps(row) ==
    {q - p : <<p, q>> \in {pq \in MinPlaces(row) \X MinPlaces(row) :
                              /\ pq[1] < pq[2]
                              /\ \A m \in MinPlaces(row) : ~(pq[1] < m /\ m < pq[2])}}

\* distinct gap magnitudes, gaps of 1 ignored
Magnitudes(row) == Cardinality(Gaps(row) \ {1})

FailsNonConstant == unit_values = RaiseMsg("ValueError", "Non constant step sizes")

\* the rule with "more than n distinct magnitudes": the call fails for this reason
\* only if some row has more than n, it raises whenever some row has more than n,
\* and it fails for this reason when the first row has
RegularityRule(n) ==
    LoopReached =>
        /\ FailsNonConstant => \E r \in 1..Len(ds_inds.mat) : Magnitudes(ds_inds.mat[r]) > n
        /\ (\E r \in 1..Len(ds_inds.mat) : Magnitudes(ds_inds.mat[r]) > n) =>
              unit_values.exc = "ValueError"
        /\ Magnitudes(ds_inds.mat[1]) > n => FailsNonConstant

\* C12: get_unit_values fails with 'Non constant step sizes' exactly when the gaps
\* between consecutive minima of a row, gaps of 1 ignored, have more than two
\* distinct magnitudes
C12_MoreThanTwoMagnitudes == RegularityRule(2)

\* C12 as amended: it fails so exactly when those gaps have more than one distinct
\* magnitude
C12_MoreThanOneMagnitude == RegularityRule(1)

C12_Witness ==
    /\ LoopReached
    /\ ds_inds.mat = <<(<<0, 1, 0, 1, 1, 0>>)>>
    /\ Gaps(ds_inds.mat[1]) = {2, 3}
    /\ FailsNonConstant

\* places (from 1) where a tile of the row begins: the first step, and every
\* minimum that lies more than 1 step after the minimum before it
TileBegins(row) ==
    {1} \cup {q \in MinPlaces(row) :
                 \E p \in MinPlaces(row) :
                     /\ q - p > 1
                     /\ \A m \in MinPlaces(row) : ~(p < m /\ m < q)}

\* the tile that begins at place b
TileAt(row, b) ==
    LET later == {e \in TileBegins(row) : e > b}
        stop == IF later = {} THEN Len(row) + 1
                ELSE CHOOSE e \in later : \A x \in later : e <= x
    IN  [i \in 1..(stop - b) |-> row[b + i - 1]]

\* the row splits into more than one tile and two tiles differ in content or length
TilesNotIdentical(row) ==
    /\ Cardinality(TileBegins(row)) > 1
    /\ \E a, b \in TileBegins(row) : TileAt(row, a) # TileAt(row, b)

\* C13: whenever a row splits into more than one tile and two of its tiles differ
\* in content or in length, get_unit_values raises, also when the dimension of
\* that row was not asked for in dim_names
C13_DifferingTilesRejected ==
    LoopReached =>
        ((\E r \in 1..Len(ds_inds.mat) : TilesNotIdentical(ds_inds.mat[r])) =>
            unit_values.exc # "None")

\* C14: check_if_main never raises: whatever object it is given, it returns a
\* boolean
C14_CheckIfMainNeverRaises == is_main.exc \in {"NoCall", "None"}

\* the conditions a Main dataset has to meet, in the order they are tested
LinksTwoD(file, name) ==
    \A i \in 1..4 :
        /\ Resolves(file, file[name], dset_names[i])
        /\ Target(file, file[name], dset_names[i]).kind = "Dataset"
        /\ Len(Target(file, file[name], dset_names[i]).shape) = 2

PairFits(file, name, inds, vals, axis) ==
    /\ Target(file, file[name], inds).shape = Target(file, file[name], vals).shape
    /\ Target(file, file[name], inds).shape[axis + 1] = file[name].shape[axis + 1]

MainConditions(file, name) ==
    /\ file[name].kind = "Dataset"
    /\ Len(file[name].shape) = 2
    /\ LinksTwoD(file, name)
    /\ {"quantity", "units"} \subseteq DOMAIN file[name].attrs
    /\ PairFits(file, name, "Position_Indices", "Position_Values", 0)
    /\ PairFits(file, name, "Spectroscopic_Indices", "Spectroscopic_Values", 1)

\* C15: check_if_main returns True only for a 2-D dataset whose four links
\* resolve to 2-D datasets, that has 'quantity' and 'units', and whose Position
\* and Spectroscopic pairs fit it; when one of these is broken it returns False
C15_TrueOnlyIfAllHold ==
    is_main.exc # "NoCall" =>
        /\ is_main.val => MainConditions(h5_file, is_main.obj)
        /\ ~MainConditions(h5_file, is_main.obj) => is_main.exc = "None"

\* the dataset write_main_dataset returned, its attributes as written, was checked
WrittenChecked ==
    /\ written.exc = "None"
    /\ shelf = NoAttrs
    /\ is_main.exc # "NoCall"
    /\ is_main.obj = h5_raw

\* C16: the dataset returned by a successful write_main_dataset satisfies
\* check_if_main, whether its ancillaries were built or supplied
C16_WrittenIsMain == WrittenChecked => (is_main.exc = "None" /\ is_main.val)

\* Position ancillaries built from pos_dims, Spectroscopic ancillaries supplied
C16_Witness ==
    /\ WrittenChecked
    /\ is_main.val
    /\ h5_file[h5_raw].attrs["Position_Indices"] = "Position_Indices"
    /\ h5_file[h5_raw].attrs["Spectroscopic_Indices"] = "S_I"

\* one link or mandatory attribute is taken off a dataset that check_if_main accepts
RemovesOne ==
    /\ h5_raw # ""
    /\ check_if_main(h5_file, h5_raw) = Returns(TRUE)
    /\ \E key \in MainAttrs \cap DOMAIN h5_file[h5_raw].attrs :
          DOMAIN h5_file'[h5_raw].attrs = DOMAIN h5_file[h5_raw].attrs \ {key}

\* the one item taken off the dataset as written is put back
RestoresOne ==
    /\ h5_raw # ""
    /\ Cardinality(DOMAIN shelf) = 1
    /\ DOMAIN shelf \cap DOMAIN h5_file[h5_raw].attrs = {}
    /\ shelf' = NoAttrs

\* C17: removing one of the four links, 'quantity' or 'units' from a dataset for
\* which check_if_main is True makes it False; putting the item back makes it
\* True again
C17_RemoveAndRestore ==
    [][/\ RemovesOne => check_if_main(h5_file', h5_raw) = Returns(FALSE)
       /\ RestoresOne => check_if_main(h5_file', h5_raw) = Returns(TRUE)]_vars

\* a link was removed from the dataset as written, and check_if_main said False
C17_Witness ==
    /\ h5_raw # ""
    /\ DOMAIN shelf = {"Spectroscopic_Values"}
    /\ "Spectroscopic_Values" \notin DOMAIN h5_file[h5_raw].attrs
    /\ is_main = [exc |-> "None", obj |-> h5_raw, val |-> FALSE]

\* write_reduced_anc_dsets was called with none of its documented refusals due:
\* the names are labels of the pair, the new datasets do not exist yet, and the
\* orientation is given or can be told from a matrix that is not square
ReduceCalled ==
    /\ reduced.exc # "NoCall"
    /\ Range(red_args.dim_name) \subseteq Range(h5_file["Source_Indices"].labels)
    /\ red_args.names_free
    /\ \/ red_args.is_spec # "None"
       \/ h5_file["Source_Indices"].shape[1] # h5_file["Source_Indices"].shape[2]

SameContent(a, b) ==
    /\ a.shape = b.shape
    /\ a.mat = b.mat
    /\ a.labels = b.labels
    /\ a.units = b.units

\* C18: with no dimension to drop write_reduced_anc_dsets succeeds, and the new
\* pair has the shape, entries, labels and units of the input pair
C18_DropNothingIsIdentity ==
    (ReduceCalled /\ red_args.dim_name = <<>>) =>
        /\ reduced.exc = "None"
        /\ SameContent(h5_file[reduced.inds], h5_file["Source_Indices"])
        /\ SameContent(h5_file[reduced.vals], h5_file["Source_Values"])

DropsAll == Range(red_args.dim_name) = Range(h5_file["Source_Indices"].labels)

IsSingleStep(dset) ==
    /\ dset.shape = <<1, 1>>
    /\ dset.mat = <<<<0>>>>
    /\ dset.labels = <<"Single_Step">>

SingleStepPair ==
    /\ reduced.exc = "None"
    /\ IsSingleStep(h5_file[reduced.inds])
    /\ IsSingleStep(h5_file[reduced.vals])

\* C19 as stated: dropping every dimension yields a 1x1 'Single_Step' pair
\* holding 0 for every input and both orientations, is_spec given or not
C19_DropAllAlways ==
    (reduced.exc # "NoCall" /\ red_args.names_free /\ DropsAll) => SingleStepPair

\* C19: dropping every dimension yields a 1x1 'Single_Step' pair holding 0,
\* whenever is_spec is given or the input matrix is not square
C19_DropAllGivesSingleStep == (ReduceCalled /\ DropsAll) => SingleStepPair

\* three dimensions in position orientation, orientation sniffed, all dropped
C19_Witness ==
    /\ ReduceCalled
    /\ DropsAll
    /\ Len(red_args.dim_name) = 3
    /\ ~red_args.spec_oriented
    /\ red_args.is_spec = "None"
    /\ SingleStepPair

\* a proper, non-empty part of the dimensions is dropped
DropsSome ==
    /\ red_args.dim_name # <<>>
    /\ Range(red_args.dim_name) # Range(h5_file["Source_Indices"].labels)

\* a matrix of the pair with dimensions as rows
AsRows(mat) == IF red_args.spec_oriented THEN mat ELSE np_transpose2(mat)

Dropped == {i \in 1..Len(h5_file["Source_Indices"].labels) :
               h5_file["Source_Indices"].labels[i] \in Range(red_args.dim_name)}

Lowest(row) == CHOOSE x \in Range(row) : \A y \in Range(row) : x <= y

\* the steps at which every dropped dimension has its lowest index, in order
KeptSteps ==
    LET inds == AsRows(h5_file["Source_Indices"].mat)
        AtLowest(s) == \A i \in Dropped : inds[i][s] = Lowest(inds[i])
    IN  SelectSeq([s \in 1..Len(inds[1]) |-> s], AtLowest)

Survivors ==
    LET Kept(i) == i \notin Dropped
    IN  SelectSeq([i \in 1..Len(h5_file["Source_Indices"].labels) |-> i], Kept)

\* the slice of a matrix of the pair: surviving rows at the kept steps
SliceOf(mat) ==
    [k \in 1..Len(Survivors) |->
        [j \in 1..Len(KeptSteps) |-> AsRows(mat)[Survivors[k]][KeptSteps[j]]]]

IsSliceOf(new, old) ==
    /\ AsRows(new.mat) = SliceOf(old.mat)
    /\ new.labels = [k \in 1..Len(Survivors) |-> old.labels[Survivors[k]]]
    /\ new.units = [k \in 1..Len(Survivors) |-> old.units[Survivors[k]]]

\* C20: dropping a proper non-empty part D of the dimensions keeps exactly the
\* steps at which every dimension of D has its lowest index, removes the rows
\* of D from both matrices, copies the other entries, keeps the orientation,
\* and gives the labels and units of the surviving dimensions in their order
C20_AxisFixingSlice ==
    (ReduceCalled /\ DropsSome) =>
        /\ reduced.exc = "None"
        /\ IsSliceOf(h5_file[reduced.inds], h5_file["Source_Indices"])
        /\ IsSliceOf(h5_file[reduced.vals], h5_file["Source_Values"])

\* one of the refusals is due: an unknown name, a square matrix with is_spec
\* not given, or a dataset of one of the default names in the parent group
RefusalDue ==
    /\ red_args # None
    /\ reduced.exc = "NoCall"
    /\ \/ ~(Range(red_args.dim_name) \subseteq Range(h5_file["Source_Indices"].labels))
       \/ /\ red_args.is_spec = "None"
          /\ h5_file["Source_Indices"].shape[1] = h5_file["Source_Indices"].shape[2]
       \/ ~red_args.names_free

\* C21: when a requested name is not a label, when the orientation of a square
\* matrix is not given, or when a dataset of the new name exists, the call
\* raises and the parent group holds what it held before, unchanged
C21_RefusalLeavesStore ==
    [][(RefusalDue /\ reduced'.exc # "NoCall") =>
           (reduced'.exc \notin {"None", "NoCall"} /\ h5_file' = h5_file)]_vars

\* the call was refused for an existing dataset, which is still as it was
C21_Witness ==
    /\ red_args # None
    /\ ~red_args.names_free
    /\ Range(red_args.dim_name) \subseteq Range(h5_file["Source_Indices"].labels)
    /\ reduced.exc = "KeyError"
    /\ h5_file["Spectroscopic_Indices"] = Dataset(<<1, 1>>, NoAttrs)
    /\ DOMAIN h5_file = {"Source_Indices", "Source_Values", "Spectroscopic_Indices",
                         "Position_Values"}

\* the builder returned matrices; seen with dimensions as rows
BuiltOk == built.exc = "None"

TickCounts == [i \in 1..Len(build_args.unit_values) |-> Len(build_args.unit_values[i])]

RECURSIVE ProductOfFirst(_, _)
ProductOfFirst(L, n) == IF n = 0 THEN 1 ELSE L[n] * ProductOfFirst(L, n - 1)

BuiltRows(m) == IF build_args.is_spectral THEN m ELSE np_transpose2(m)

\* np.arange, np.repeat and np.tile, as the expected matrices of the tests use them
np_arange(n) == [k \in 1..n |-> k - 1]

np_repeat(a, n) == [k \in 1..(Len(a) * n) |-> a[((k - 1) \div n) + 1]]

np_tile(a, n) == [k \in 1..(Len(a) * n) |-> a[((k - 1) % Len(a)) + 1]]

ExpectedRow(L, i) ==
    np_tile(np_repeat(np_arange(L[i]), ProductOfFirst(L, i - 1)),
            ProductOfFirst(L, Len(L)) \div ProductOfFirst(L, i))

EachCombinationOnce(inds, L) ==
    /\ \A s, t \in 1..Len(inds[1]) :
          s # t => \E i \in 1..Len(inds) : inds[i][s] # inds[i][t]
    /\ Len(inds[1]) = ProductOfFirst(L, Len(L))

\* C22: the index matrix has one row per dimension and one column per
\* combination, entry [i, s] = floor(s / (L_0 * ... * L_(i-1))) mod L_i, so the
\* entries of row i lie in [0, L_i), dimension 0 cycles every step and every
\* combination of indices occurs exactly once; the value matrix holds the tick
\* at each index; the position orientation is the transpose
C22_CartesianTiling ==
    BuiltOk =>
        LET L == TickCounts
            inds == BuiltRows(built.inds)
            vals == BuiltRows(built.vals)
        IN  /\ Len(inds) = Len(L) /\ Len(vals) = Len(L)
            /\ \A i \in 1..Len(L) :
                  /\ Len(inds[i]) = ProductOfFirst(L, Len(L))
                  /\ Len(vals[i]) = ProductOfFirst(L, Len(L))
                  /\ \A s \in 1..Len(inds[i]) :
                        /\ inds[i][s] = ((s - 1) \div ProductOfFirst(L, i - 1)) % L[i]
                        /\ inds[i][s] \in 0..(L[i] - 1)
                        /\ vals[i][s] = build_args.unit_values[i][inds[i][s] + 1]
                  /\ inds[i] = ExpectedRow(L, i)
            /\ \A s \in 1..Len(inds[1]) : inds[1][s] = (s - 1) % L[1]
            /\ EachCombinationOnce(inds, L)
            /\ build_ind_val_matrices(build_args.unit_values, FALSE).inds
                   = np_transpose2(build_ind_val_matrices(build_args.unit_values, TRUE).inds)
            /\ build_ind_val_matrices(build_args.unit_values, FALSE).vals
                   = np_transpose2(build_ind_val_matrices(build_args.unit_values, TRUE).vals)

\* three dimensions of sizes 2, 3, 2 built in position orientation
C22_Witness ==
    /\ BuiltOk
    /\ TickCounts = <<2, 3, 2>>
    /\ ~build_args.is_spectral
    /\ Len(built.inds) = 12
    /\ built.inds[4] = <<1, 1, 0>>

\* C23: inferring indices from a value matrix made by Cartesian tiling gives
\* back the index matrix of that tiling, also when a dimension's ticks hold the
\* same value more than once; an input that is not 2-D fails
C23_InverseRoundTrip ==
    inferred.exc # "NoCall" =>
        IF inferred.ndim = 2
        THEN inferred.exc = "None" /\ inferred.val = built.inds
        ELSE inferred.exc # "None"

\* ---------------------------------------------------------------------------
\* C24
\* ---------------------------------------------------------------------------

\* the pairs fit the dataset: two rows-by-anything Position matrices of equal
\* shapes with as many rows as the data, two Spectroscopic ones with as many
\* columns as the data
PairsFit(file, call) ==
    /\ \A n \in {call.h5_pos_inds, call.h5_pos_vals, call.h5_spec_inds, call.h5_spec_vals} :
         file[n].kind = "Dataset" /\ Len(file[n].shape) = 2
    /\ file[call.h5_pos_inds].shape = file[call.h5_pos_vals].shape
    /\ file[call.h5_spec_inds].shape = file[call.h5_spec_vals].shape
    /\ file[call.h5_pos_inds].shape[1] = file["Bare"].shape[1]
    /\ file[call.h5_spec_inds].shape[2] = file["Bare"].shape[2]

LinkAttrs == {"Position_Indices", "Position_Values", "Spectroscopic_Indices", "Spectroscopic_Values"}

\* C24: link_as_main raises and writes none of the four link attributes
\* unless the Position pair has equal shapes with as many rows as the data and
\* the Spectroscopic pair has equal shapes with as many columns as the data;
\* hence a dataset with 'quantity' and 'units' that link_as_main linked
\* successfully satisfies check_if_main.
C24_LinkingEnforcesFit ==
    linked # NoCall =>
        /\ ~ PairsFit(h5_file, linked) =>
              /\ linked.exc # "None"
              /\ LinkAttrs \cap DOMAIN h5_file["Bare"].attrs = {}
        /\ (linked.exc = "None" /\ is_main # NoCall /\ is_main.obj = "Bare") =>
              (is_main.exc = "None" /\ is_main.val)
\* ---------------------------------------------------------------------------
\* C25
\* ---------------------------------------------------------------------------

FullySuccessful(ret) == ret.exc = "None" /\ ret.success = "True"

\* the index row of the dimension a label names
RowOfLabel(lab) ==
    IF lab[1] = "Position Dimension"
    THEN np_transpose2(h5_pos)[lab[2] + 1]
    ELSE h5_spec[lab[2] + 1]

\* labels of one group, in the order of the rows of its index matrix
OriginalPosLabels == [i \in 1..Len(h5_pos[1]) |-> PosLabel(i - 1)]
OriginalSpecLabels == [i \in 1..Len(h5_spec) |-> SpecLabel(i - 1)]

\* no dimension stands before one that changes more often
FastestToSlowest(labels) ==
    \A i, j \in 1..Len(labels) :
        i < j => Transitions(RowOfLabel(labels[i])) >= Transitions(RowOfLabel(labels[j]))

PosPart(labels) == Slice(labels, 0, Len(h5_pos[1]))
SpecPart(labels) == Slice(labels, Len(h5_pos[1]), Len(labels))

\* every axis has the size of the dimension its label names
AxesFollow(ret) ==
    /\ Len(ret.labels) = Len(ret.ds_Nd.shape)
    /\ \A i \in 1..Len(ret.labels) :
          ret.ds_Nd.shape[i] = np_unique_len(RowOfLabel(ret.labels[i]))

\* C25: on a fully successful reshape sort_dims is honoured: with
\* sort_dims=True the axes and labels of each group run from the fastest to
\* the slowest dimension, with sort_dims=False they keep the order of the rows
\* of the index matrices, and the two settings differ whenever the rows of an
\* index matrix are not already ordered fastest to slowest.
C25_SortDimsHonoured ==
    (pc # "input" /\ get_labels /\ FullySuccessful(ret_nd)) =>
        /\ AxesFollow(ret_nd)
        /\ sort_dims =>
              /\ FastestToSlowest(PosPart(ret_nd.labels))
              /\ FastestToSlowest(SpecPart(ret_nd.labels))
        /\ ~sort_dims =>
              ret_nd.labels = OriginalPosLabels \o OriginalSpecLabels
        /\ (~FastestToSlowest(OriginalPosLabels) \/ ~FastestToSlowest(OriginalSpecLabels)) =>
              LET other == reshape_to_n_dims(h5_main, h5_pos, h5_spec, TRUE, ~sort_dims)
              IN  FullySuccessful(other) /\ other.labels # ret_nd.labels

\* the same with the dimensions of each group ordered as get_sort_order orders them
SortDimsFollowsCodeOrder ==
    (pc # "input" /\ get_labels /\ FullySuccessful(ret_nd) /\ sort_dims) =>
        /\ PosPart(ret_nd.labels)
             = TakeLabels(OriginalPosLabels, get_sort_order(np_transpose2(h5_pos)))
        /\ SpecPart(ret_nd.labels) = TakeLabels(OriginalSpecLabels, get_sort_order(h5_spec))
\* ---------------------------------------------------------------------------
\* C26
\* ---------------------------------------------------------------------------

\* what reshape_to_n_dims hands to get_sort_order and get_dimensionality:
\* both index matrices with the dimensions as rows
HandedOver == {np_transpose2(h5_pos), h5_spec}

\* C26: for every index matrix handed over with its dimensions as rows, also
\* one with more dimension rows than steps, get_sort_order returns a
\* permutation of all dimension rows and get_dimensionality one cardinality
\* per dimension row; a successful reshape_to_n_dims result therefore has as
\* many axes as there are Position plus Spectroscopic dimensions.
C26_SniffingKeepsDimensions ==
    pc = "reshape_to_n_dims" =>
        /\ \A m \in HandedOver :
              /\ IsPermutationOfRows(get_sort_order(m), Len(m))
              /\ get_dimensionality(m, NoSort).exc = "None"
              /\ Len(get_dimensionality(m, NoSort).val) = Len(m)
        /\ FullySuccessful(ret_nd) =>
              ndim(ret_nd.ds_Nd) = Len(h5_pos[1]) + Len(h5_spec)
\* ---------------------------------------------------------------------------
\* C27
\* ---------------------------------------------------------------------------

\* the steps of an index matrix (dimensions as rows), one tuple per step
StepTuples(rows) == {[i \in 1..Len(rows) |-> rows[i][s]] : s \in 1..Len(rows[1])}

\* every combination of the values of the dimensions stands at exactly one step
CompleteProduct(rows) ==
    /\ Cardinality(StepTuples(rows)) = Len(rows[1])
    /\ np_prod(DistinctCounts(rows)) = Len(rows[1])
    /\ \A i \in 1..Len(rows) : Range(rows[i]) = 0..(np_unique_len(rows[i]) - 1)

\* (pos_inds[r, 0], ..., pos_inds[r, k-1], spec_inds[0, c], ..., spec_inds[m-1, c])
MultiIndex(r, c) == h5_pos[r] \o [i \in 1..Len(h5_spec) |-> h5_spec[i][c]]

\* C27: with sort_dims=False and status True, index matrices that each
\* enumerate a complete Cartesian product (steps in any order) put main[r, c]
\* at the multi-index (pos_inds[r, 0], ..., pos_inds[r, k-1], spec_inds[0, c],
\* ..., spec_inds[m-1, c]) of the N-D result, and the i-th returned label
\* names the dimension of axis i.
C27_ElementMapping ==
    (/\ pc = "reshape_to_n_dims"
     /\ ~sort_dims
     /\ FullySuccessful(ret_nd)
     /\ CompleteProduct(np_transpose2(h5_pos))
     /\ CompleteProduct(h5_spec)) =>
        /\ ret_nd.ds_Nd.shape
             = DistinctCounts(np_transpose2(h5_pos)) \o DistinctCounts(h5_spec)
        /\ \A r \in 1..h5_main.shape[1], c \in 1..h5_main.shape[2] :
              At(ret_nd.ds_Nd, MultiIndex(r, c))
                = h5_main.data[(r - 1) * h5_main.shape[2] + c]
        /\ get_labels => ret_nd.labels = OriginalPosLabels \o OriginalSpecLabels
\* ---------------------------------------------------------------------------
\* C28
\* ---------------------------------------------------------------------------

\* C28: a write_main_dataset call that raises leaves in the parent group
\* exactly the objects that were there before the call.
C28_FailedWriteLeavesGroup ==
    [][(written.exc = "NoCall" /\ written'.exc \notin {"None", "NoCall"}) =>
           DOMAIN h5_file' = DOMAIN h5_file]_vars
\* ---------------------------------------------------------------------------
\* C29
\* ---------------------------------------------------------------------------

\* the group as it was before the first call
BeforeFirst == [n \in DOMAIN h5_file \ {reduced.inds, reduced.vals} |-> h5_file[n]]

\* A was dropped with is_spec given, then B, and a further dimension is left
DroppedOneByOne ==
    /\ reduced_twice # NoCall
    /\ red_args.is_spec # "None"
    /\ Len(red_args.dim_name) = 1
    /\ reduced_twice.dim_name[1] \in Range(h5_file["Source_Indices"].labels)
    /\ Len(h5_file["Source_Indices"].labels) > 2

\* both names in one call / the other name first
InOneCall ==
    LET ret == write_reduced_anc_dsets(BeforeFirst, "Source_Indices", "Source_Values",
                   red_args.dim_name \o reduced_twice.dim_name, red_args.is_spec)
    IN  [exc |-> ret.exc, inds |-> ret.file[ret.inds], vals |-> ret.file[ret.vals]]

OtherWayRound ==
    LET first == write_reduced_anc_dsets(BeforeFirst, "Source_Indices", "Source_Values",
                     reduced_twice.dim_name, red_args.is_spec)
    IN  reduce_again(first.file, first, red_args.dim_name, red_args.is_spec)

\* C29: for a pair built by Cartesian tiling, is_spec given, and two
\* distinct names A and B besides which a dimension remains, dropping A and
\* then B gives the index matrix, value matrix, labels and units that
\* dropping A and B in one call gives, and that dropping B and then A gives.
C29_DroppingComposes ==
    DroppedOneByOne =>
        /\ reduced_twice.exc = "None"
        /\ InOneCall.exc = "None"
        /\ reduced_twice.inds = InOneCall.inds
        /\ reduced_twice.vals = InOneCall.vals
        /\ OtherWayRound.exc = "None"
        /\ reduced_twice.inds = OtherWayRound.inds
        /\ reduced_twice.vals = OtherWayRound.vals

\* X was dropped from three dimensions of size 2, then Z: the two steps of Y are left
C29_Witness ==
    /\ DroppedOneByOne
    /\ red_args.dim_name = <<"X">>
    /\ reduced_twice.dim_name = <<"Z">>
    /\ red_args.spec_oriented
    /\ h5_file["Source_Indices"].shape = <<3, 8>>
    /\ reduced_twice.inds.mat = <<<<0, 1>>>>
    /\ reduced_twice.inds.labels = <<"Y">>
    /\ reduced_twice.inds.units = <<"s">>
\* ---------------------------------------------------------------------------
\* C30
\* ---------------------------------------------------------------------------

\* the name base_name + '_' + index, zero-padded to at least 3 digits
IndexedName(base_name, index) == base_name \o <<"_">> \o Format03d(index)

\* the indices already used with this prefix in the parent group
UsedIndices(file, base_name) ==
    {n \in 0..(MaxGroups + 1) :
        /\ IndexedName(base_name, n) \in DOMAIN file
        /\ file[IndexedName(base_name, n)].kind = "Group"}

\* 0 if no group has the prefix, else one more than the largest index used
IndexDue(file, base_name) ==
    IF UsedIndices(file, base_name) = {} THEN 0
    ELSE (CHOOSE n \in UsedIndices(file, base_name) :
             \A k \in UsedIndices(file, base_name) : k <= n) + 1

\* C30: in any sequence of create_indexed_group calls with non-empty base
\* names on one parent, base names that are prefixes of one another included,
\* every call succeeds and creates a group whose name was not there before:
\* base_name + '_' + a zero-padded index of at least 3 digits, the index 0 if
\* no group has that prefix and otherwise one more than the largest in use.
C30_EveryCallCreates ==
    [][created' # created =>
          /\ created'.exc = "None"
          /\ created'.name \notin DOMAIN h5_file
          /\ created'.name = IndexedName(str_strip(created'.base_name),
                                         IndexDue(h5_file, str_strip(created'.base_name)))
          /\ DOMAIN h5_file' = DOMAIN h5_file \cup {created'.name}]_vars

\* the same for base names of which none is a prefix of another in the group
NoPrefixClash ==
    \A item_name \in DOMAIN h5_file :
        startswith(item_name, str_strip(created'.base_name) \o <<"_">>)
            => IsIntLiteral(str_remove(item_name, str_strip(created'.base_name) \o <<"_">>))

EveryCallCreatesUnlessClash ==
    [][(created' # created /\ NoPrefixClash) =>
          /\ created'.exc = "None"
          /\ created'.name \notin DOMAIN h5_file
          /\ created'.name = IndexedName(str_strip(created'.base_name),
                                         IndexDue(h5_file, str_strip(created'.base_name)))
          /\ DOMAIN h5_file' = DOMAIN h5_file \cup {created'.name}]_vars
====
